---- MODULE Spec2Model ----
(***************************************************************************)
(* A model of the Hiero message box (src/src/lib/message-box.js, which     *)
(* holds both lib/message-box.js and lib/hedera.js): the ledger (topics    *)
(* and account memos), setupMessageBox, removeMessageBox, sendMessage,     *)
(* pollMessages with its polling cache, and the chunk reassembly of the    *)
(* mirror-node reader.                                                     *)
(***************************************************************************)
EXTENDS Integers, Sequences, FiniteSets, TLC

VARIABLES
    topics,        \* the ledger: topics[t] is the log of topic 0.0.t
    memo,          \* the ledger: the memo of every account
    dataDir,       \* the RSA key files of the local data directory
    setup,         \* the running setupMessageBox call and what it has done
    sent,          \* what the last sendMessage call did (for the properties)
    outbox,        \* the envelopes sendMessage has submitted, and where
    pollingCache,  \* the module-level polling cache of message-box.js
    pollReturn,    \* what the last pollMessages call did (for the properties)
    delivered,     \* sequence numbers of all messages polls have returned
    sessionStart,  \* length of the box's log when the first poll read it
    owed,          \* messages seen complete in the log above the cursor
    messages,      \* reassembly: the list handed to reassembleChunkedMessages
    output,        \* reassembly: the list it returned
    reasmDone,     \* reassembly: whether it has run
    reasmError,    \* reassembly: the error it threw, if any
    checked,       \* what the last checkMessages call did (for the properties)
    cborValue,     \* CBOR: the value handed to encodeCBOR
    cborResult,    \* CBOR: what decodeCBOR made of the encoded value
    removed,       \* what the last removeMessageBox call did (for the properties)
    cryptoCall,    \* lib/crypto.js: the last encryptMessage and decryptMessage
    sigCall,       \* lib/crypto.js: the last signMessage and verifySignature
    rangeCall,     \* the running getMessagesInRange call: its loop and requests
    listener,      \* the listen command: its position and the polls in flight
    codecCall      \* a call of the codec or of parseMessageContent: input, result

ledgerVars == <<topics, memo>>
pollVars == <<pollingCache, pollReturn, delivered, sessionStart, owed>>
reasmVars == <<messages, output, reasmDone, reasmError>>
opVars == <<setup, sent, outbox>>
cborVars == <<cborValue, cborResult>>
cryptoVars == <<cryptoCall, sigCall>>
loopVars == <<rangeCall, listener>>
toolVars == <<checked, cborVars, removed, cryptoVars, loopVars, codecCall>>
vars == <<topics, memo, dataDir, setup, sent, outbox, pollingCache,
          pollReturn,
          delivered, sessionStart, owed, messages, output, reasmDone,
          reasmError, checked, cborValue, cborResult, removed, cryptoCall, sigCall,
          rangeCall, listener, codecCall>>

(***************************************************************************)
(* Bounds of the model.                                                    *)
(***************************************************************************)
MaxNesting == 2    \* deepest nesting of arrays and maps handed to encodeCBOR
MaxWrappedBytes == 600 \* longest encoded value that is put into an array or map
MaxItemBytes == 32 \* longest encoded item that is repeated in an array or map
MaxSent == 3       \* messages sent to the box that is read in both formats
MaxMsgs == 3       \* longest list handed to reassembleChunkedMessages
MaxTotal == 3      \* chunks of the longer of the two multi-part messages
MaxLog == 6        \* longest log of a topic while the listener polls
MaxTopics == 2     \* topics created while boxes are set up
MaxBoxLog == 2     \* longest log of a topic while boxes are set up
\* The page size of the mirror-node queries. The code asks for 100 entries
\* (limit: 100 in getNewMessages and getMessagesInRange); the model scales
\* the page down so that a log of MaxLog entries is longer than one page.
PageLimit == 3

(***************************************************************************)
(* Base64, as Buffer.from(s, 'base64') and buf.toString('base64') compute  *)
(* it on well-formed text: 3 bytes <-> 4 symbols, '=' padding at the end.  *)
(* A byte is 0..255, a symbol 0..63, Pad stands for '='.                   *)
(***************************************************************************)
Pad == 64

RECURSIVE B64Encode(_)
B64Encode(b) ==
    IF Len(b) = 0 THEN <<>>
    ELSE IF Len(b) = 1 THEN
        <<b[1] \div 4, (b[1] % 4) * 16, Pad, Pad>>
    ELSE IF Len(b) = 2 THEN
        <<b[1] \div 4, (b[1] % 4) * 16 + (b[2] \div 16), (b[2] % 16) * 4, Pad>>
    ELSE
        <<b[1] \div 4, (b[1] % 4) * 16 + (b[2] \div 16),
          (b[2] % 16) * 4 + (b[3] \div 64), b[3] % 64>>
        \o B64Encode(SubSeq(b, 4, Len(b)))

RECURSIVE B64Decode(_)
B64Decode(s) ==
    IF Len(s) < 4 THEN <<>>
    ELSE IF s[3] = Pad THEN
        <<s[1] * 4 + (s[2] \div 16)>>
    ELSE IF s[4] = Pad THEN
        <<s[1] * 4 + (s[2] \div 16), (s[2] % 16) * 16 + (s[3] \div 4)>>
    ELSE
        <<s[1] * 4 + (s[2] \div 16), (s[2] % 16) * 16 + (s[3] \div 4),
          (s[3] % 4) * 64 + s[4]>>
        \o B64Decode(SubSeq(s, 5, Len(s)))

(***************************************************************************)
(* A mirror-node message: sequence_number, message (base64 text) and       *)
(* chunk_info, which is NoChunk (the field is absent) or [key, number,     *)
(* total]; key stands for the string built from initial_transaction_id.    *)
(***************************************************************************)
NoChunk == [key |-> "none", number |-> 0, total |-> 0]
NoTxId == ""        \* the key of a chunk without a usable initial_transaction_id
Hole == <<-1>>      \* an empty slot of `new Array(total)`; no base64 text

Msg(seq, message, info) ==
    [sequence_number |-> seq, message |-> message, chunk_info |-> info]

ChunkInfo(key, number, total) == [key |-> key, number |-> number, total |-> total]

SetMinOf(S) == CHOOSE x \in S : \A y \in S : x <= y

(***************************************************************************)
(* reassembleChunkedMessages                                               *)
(***************************************************************************)
\* group.chunks[chunkNum - 1] = msg.message : a JS array grows to hold the index
storeChunk_Append(chunks, chunkNum, message) ==
    LET firstHole == CHOOSE i \in 1..(Len(chunks) + 1) :
            /\ (i = Len(chunks) + 1 \/ chunks[i] = Hole)
            /\ \A j \in 1..(i - 1) : chunks[j] # Hole
    IN IF firstHole > Len(chunks) THEN Append(chunks, message)
       ELSE [chunks EXCEPT ![firstHole] = message]

storeChunk(chunks, chunkNum, message) ==
    IF chunkNum < 1 THEN chunks
    ELSE [i \in 1..(IF chunkNum > Len(chunks) THEN chunkNum ELSE Len(chunks)) |->
            IF i = chunkNum THEN message
            ELSE IF i <= Len(chunks) THEN chunks[i] ELSE Hole]

\* chunkedGroups.set(key, {...}) for the first chunk seen of a group
newGroup(msg) ==
    [chunks |-> [i \in 1..msg.chunk_info.total |-> Hole],
     metadata |-> msg,
     total |-> msg.chunk_info.total,
     minSequence |-> msg.sequence_number,
     maxSequence |-> msg.sequence_number,
     hasFirstChunk |-> (msg.chunk_info.number = 1)]

\* lines 914-920: the update of a group by one chunk
minSequence(group, msg) ==
    IF msg.sequence_number < group.minSequence
    THEN msg.sequence_number ELSE group.minSequence

maxSequence(group, msg) ==
    IF msg.sequence_number > group.maxSequence
    THEN msg.sequence_number ELSE group.maxSequence

addChunk(group, msg) ==
    [group EXCEPT
        !.hasFirstChunk = group.hasFirstChunk \/ msg.chunk_info.number = 1,
        !.chunks = storeChunk(group.chunks, msg.chunk_info.number, msg.message),
        !.minSequence = minSequence(group, msg),
        !.maxSequence = maxSequence(group, msg)]

\* the messages.forEach of lines 882-921, as a fold over the input; the state
\* is the Map (groups, with keys in insertion order) and completeMessages
RECURSIVE groupMessages(_, _)
groupMessages(msgs, st) ==
    IF Len(msgs) = 0 THEN st
    ELSE
        LET msg == Head(msgs)
            rest == Tail(msgs)
        IN  IF Len(msg.message) = 0 THEN groupMessages(rest, st)
            ELSE IF msg.chunk_info = NoChunk THEN
                groupMessages(rest,
                    [st EXCEPT !.completeMessages = Append(@, msg)])
            ELSE IF msg.chunk_info.key = NoTxId THEN groupMessages(rest, st)
            ELSE
                LET key == msg.chunk_info.key
                    known == key \in DOMAIN st.groups
                    group == IF known THEN st.groups[key] ELSE newGroup(msg)
                    groups == IF known THEN st.groups
                              ELSE st.groups @@ (key :> group)
                IN  groupMessages(rest,
                        [st EXCEPT
                            !.groups = [groups EXCEPT ![key] = addChunk(group, msg)],
                            !.keys = IF known THEN @ ELSE Append(@, key)])

\* group.chunks.every(...): every() visits no hole, and a stored chunk is a
\* non-empty string, since an entry with an empty message is skipped before
allChunksPresent(group) ==
    \A i \in 1..Len(group.chunks) :
        group.chunks[i] = Hole \/ Len(group.chunks[i]) > 0

\* Buffer.concat(binaryChunks): map() keeps the holes and Buffer.concat throws
\* on an element that is no buffer; the catch of line 978 drops the group
concatThrows_Never(chunks) == FALSE

concatThrows(chunks) == \E i \in 1..Len(chunks) : chunks[i] = Hole

RECURSIVE concatBinary(_)
concatBinary(chunks) ==
    IF Len(chunks) = 0 THEN <<>>
    ELSE (IF Head(chunks) = Hole THEN <<>> ELSE B64Decode(Head(chunks)))
         \o concatBinary(Tail(chunks))

\* lines 956-977: decode every chunk, concatenate, encode again
reassembledMessage(group) ==
    [sequence_number |-> group.minSequence,
     message |-> B64Encode(concatBinary(group.chunks)),
     chunk_info |-> NoChunk,
     _maxSequence |-> group.maxSequence]

\* the body of chunkedGroups.forEach, lines 924-993: what one group adds
groupOutput(group) ==
    IF ~group.hasFirstChunk THEN <<>>
    ELSE IF Len(group.chunks) # group.total THEN <<>>
    ELSE IF allChunksPresent(group) THEN
        IF concatThrows(group.chunks) THEN <<>>
        ELSE <<reassembledMessage(group)>>
    ELSE <<>>

RECURSIVE reassembleGroups(_, _)
reassembleGroups(keys, groups) ==
    IF Len(keys) = 0 THEN <<>>
    ELSE groupOutput(groups[Head(keys)]) \o reassembleGroups(Tail(keys), groups)

\* completeMessages.sort((a, b) => a.sequence_number - b.sequence_number):
\* a stable sort, here by insertion
RECURSIVE insertSorted(_, _)
insertSorted(sorted, m) ==
    IF Len(sorted) = 0 THEN <<m>>
    ELSE IF sorted[Len(sorted)].sequence_number <= m.sequence_number
         THEN Append(sorted, m)
         ELSE Append(insertSorted(SubSeq(sorted, 1, Len(sorted) - 1), m),
                     sorted[Len(sorted)])

RECURSIVE sortBySequence(_)
sortBySequence_AsPushed(list) == list

sortBySequence(list) ==
    IF Len(list) = 0 THEN <<>>
    ELSE insertSorted(sortBySequence(SubSeq(list, 1, Len(list) - 1)),
                      list[Len(list)])

\* new Array(chunkTotal) throws RangeError: Invalid array length for a
\* length that is negative; nothing between it and the caller catches it
NoError == "none"
RangeError == "RangeError: Invalid array length"

newArrayThrows(arrayLength) == arrayLength < 0

\* whether the messages.forEach of lines 882-921 reaches a new Array that
\* throws: at the first chunk seen of a group
RECURSIVE groupMessagesThrows(_, _)
groupMessagesThrows(msgs, seen) ==
    IF Len(msgs) = 0 THEN FALSE
    ELSE
        LET msg == Head(msgs)
            rest == Tail(msgs)
        IN  IF \/ Len(msg.message) = 0
               \/ msg.chunk_info = NoChunk
               \/ msg.chunk_info.key = NoTxId
               \/ msg.chunk_info.key \in seen
            THEN groupMessagesThrows(rest, seen)
            ELSE \/ newArrayThrows(msg.chunk_info.total)
                 \/ groupMessagesThrows(rest, seen \cup {msg.chunk_info.key})

reassembleThrows(msgs) == groupMessagesThrows(msgs, {})

reassembleChunkedMessages(msgs) ==
    IF Len(msgs) = 0 THEN <<>>
    ELSE
        LET st == groupMessages(msgs,
                    [groups |-> <<>>, keys |-> <<>>, completeMessages |-> <<>>])
        IN  sortBySequence(st.completeMessages
                           \o reassembleGroups(st.keys, st.groups))

(***************************************************************************)
(* The entries of the model: plain entries and the chunks of two           *)
(* multi-part messages, "tx1" of MaxTotal chunks and "tx2" of 2.           *)
(***************************************************************************)
GroupKeys == {"tx1", "tx2"}

GroupTotal(key) == IF key = "tx1" THEN MaxTotal ELSE 2

\* the bytes chunk `number` of message `key` carries: `number` bytes, so that
\* the chunks of one message differ in their base64 padding
ChunkBytes(key, number) ==
    [j \in 1..number |-> (IF key = "tx1" THEN 100 ELSE 200) + 10 * number + j]

PlainBytes == <<123, 34, 125>>

EntryKinds ==
    {NoChunk} \cup
    {ChunkInfo(k, n, GroupTotal(k)) : k \in {"tx1"}, n \in 1..MaxTotal} \cup
    {ChunkInfo(k, n, GroupTotal(k)) : k \in {"tx2"}, n \in 1..2}

KindPayload(info) ==
    IF info = NoChunk THEN B64Encode(PlainBytes)
    ELSE B64Encode(ChunkBytes(info.key, info.number))

ReasmIdle ==
    /\ messages = <<>>
    /\ output = <<>>
    /\ reasmDone = TRUE
    /\ reasmError = NoError

(***************************************************************************)
(* The ledger and its mirror node.  A topic id 0.0.t is t, the index of    *)
(* its log in `topics`; an entry's sequence number is its position in the  *)
(* log.  A memo is 0 for the empty string and t > 0 for a text holding     *)
(* "[HIP-9999:0.0.t]".                                                     *)
(***************************************************************************)
Owner == "owner"          \* the account of the local user
Other == "other"          \* another account
Accounts == {Owner, Other}

EmptyMemo == 0

BoxMemo(topicId) == topicId

\* memo.match(/\[HIP-9999:(0\.0\.\d+)\]/): the box id, or 0 for null
extractMessageBoxIdFromMemo(m) == IF m > 0 THEN m ELSE 0

LedgerEmpty ==
    /\ topics = <<>>
    /\ memo = [a \in Accounts |-> EmptyMemo]

(***************************************************************************)
(* RSA key pairs.  crypto.generateKeyPairSync yields a new pair on every   *)
(* call: the pairs of the local user in the order they are generated, and  *)
(* the pair of another user.                                               *)
(***************************************************************************)
OwnerPrivateKeys == <<"ownerPrivateKey", "ownerPrivateKey2">>

PublicKeyOf(privateKey) ==
    IF privateKey = "ownerPrivateKey" THEN "ownerPublicKey"
    ELSE IF privateKey = "ownerPrivateKey2" THEN "ownerPublicKey2"
    ELSE "otherPublicKey"

\* the data directory: `stored` is the index of the pair in rsa_private.pem
\* and rsa_public.pem, 0 when the files are absent; `generated` counts the
\* pairs generated so far
DataDirEmpty == [stored |-> 0, generated |-> 0]

\* loadOrGenerateRSAKeyPair: the data directory after the call
loadOrGenerateRSAKeyPair(dir) ==
    IF dir.stored # 0 THEN dir
    ELSE [stored |-> dir.generated + 1, generated |-> dir.generated + 1]

PrivateKeyIn(dir) == OwnerPrivateKeys[dir.stored]

\* encryptMessage: an envelope only the private key of publicKeyPem opens
encryptMessage(message, publicKeyPem) ==
    [key |-> publicKeyPem, plaintext |-> message]

NoData == [key |-> "none", plaintext |-> "none"]

\* decryptMessage: the text, or a throw ("Decryption failed")
decryptMessage(encryptedData, privateKey) ==
    IF encryptedData # NoData /\ PublicKeyOf(privateKey) = encryptedData.key
    THEN [ok |-> TRUE, text |-> encryptedData.plaintext]
    ELSE [ok |-> FALSE, text |-> "none"]

(***************************************************************************)
(* encodeCBOR and decodeCBOR (lib/common.js).  A JavaScript value is a     *)
(* record [t, n, s]: t is "null", "undefined", "boolean" (n is 0 or 1),    *)
(* "number" (the integer n), "string" (s holds its UTF-8 bytes), "buffer"  *)
(* (s holds its bytes), "array" (s holds the items) or "object" (s holds   *)
(* key 1, value 1, key 2, value 2, ... in the order of Object.entries;     *)
(* a key is a string).                                                     *)
(***************************************************************************)
JsValue(t, n, s) == [t |-> t, n |-> n, s |-> s]

JsNull == JsValue("null", 0, <<>>)
JsUndefined == JsValue("undefined", 0, <<>>)
JsBoolean(b) == JsValue("boolean", IF b THEN 1 ELSE 0, <<>>)
JsNumber(n) == JsValue("number", n, <<>>)
JsString(bytes) == JsValue("string", 0, bytes)
JsBuffer(bytes) == JsValue("buffer", 0, bytes)
JsArray(items) == JsValue("array", 0, items)
JsObject(entries) == JsValue("object", 0, entries)

\* buf.writeUInt16BE and buf.writeUInt32BE
UInt16BE(n) == <<n \div 256, n % 256>>
UInt32BE(n) ==
    <<n \div 16777216, (n \div 65536) % 256, (n \div 256) % 256, n % 256>>

RECURSIVE Pow2(_)
Pow2(e) == IF e = 0 THEN 1 ELSE 2 * Pow2(e - 1)

RECURSIVE Log2(_)
Log2(n) == IF n < 2 THEN 0 ELSE 1 + Log2(n \div 2)

\* buf.writeDoubleBE of an integer of magnitude below 2^20: sign, the 11
\* bits of the exponent, and the fraction, of which only the 20 highest
\* bits can be set
DoubleBE(n) ==
    LET mag == IF n < 0 THEN -n ELSE n
        e == Log2(mag)
        exponent == IF mag = 0 THEN 0 ELSE 1023 + e
        fraction == IF mag = 0 THEN 0 ELSE (mag - Pow2(e)) * Pow2(20 - e)
    IN  <<(IF n < 0 THEN 128 ELSE 0) + exponent \div 16,
          (exponent % 16) * 16 + fraction \div 65536,
          (fraction \div 256) % 256, fraction % 256, 0, 0, 0, 0>>

\* the head of a string, byte string, array or map of length len
stringHead(len) ==
    IF len < 24 THEN <<96 + len>>
    ELSE IF len < 256 THEN <<120, len>>
    ELSE IF len < 65536 THEN <<121>> \o UInt16BE(len)
    ELSE <<122>> \o UInt32BE(len)

bufferHead(len) ==
    IF len < 24 THEN <<64 + len>>
    ELSE IF len < 256 THEN <<88, len>>
    ELSE <<90>> \o UInt32BE(len)

arrayHead(len) ==
    IF len < 24 THEN <<128 + len>>
    ELSE IF len < 256 THEN <<152, len>>
    ELSE <<154>> \o UInt32BE(len)

objectHead(len) ==
    IF len < 24 THEN <<160 + len>>
    ELSE IF len < 256 THEN <<184, len>>
    ELSE <<186>> \o UInt32BE(len)

numberBytes(n) ==
    IF n >= 0 /\ n < 24 THEN <<n>>
    ELSE IF n >= 0 /\ n < 256 THEN <<24, n>>
    ELSE IF n >= 0 /\ n < 65536 THEN <<25>> \o UInt16BE(n)
    ELSE IF n >= 0 THEN <<26>> \o UInt32BE(n)
    ELSE IF n >= -24 THEN <<32 + (-1 - n)>>
    ELSE <<251>> \o DoubleBE(n)

\* encode(value) of encodeCBOR, and the forEach over items or entries
RECURSIVE encode(_)
RECURSIVE encodeAll(_, _, _)
encodeAll(items, from, to) ==
    IF from > to THEN <<>>
    ELSE IF from = to THEN encode(items[from])
    ELSE LET mid == (from + to) \div 2
         IN  encodeAll(items, from, mid) \o encodeAll(items, mid + 1, to)

encode(value) ==
    IF value.t = "null" THEN <<246>>
    ELSE IF value.t = "undefined" THEN <<247>>
    ELSE IF value.t = "boolean" THEN <<IF value.n = 1 THEN 245 ELSE 244>>
    ELSE IF value.t = "number" THEN numberBytes(value.n)
    ELSE IF value.t = "string" THEN stringHead(Len(value.s)) \o value.s
    ELSE IF value.t = "buffer" THEN bufferHead(Len(value.s)) \o value.s
    ELSE IF value.t = "array"
    THEN arrayHead(Len(value.s)) \o encodeAll(value.s, 1, Len(value.s))
    ELSE objectHead(Len(value.s) \div 2)
         \o encodeAll(value.s, 1, Len(value.s))

encodeCBOR(data) == encode(data)

\* what decode() and readLength() hand back: a value or length, the offset
\* behind it, and whether they returned (ok) or threw
Decoded(ok, value, offset) == [ok |-> ok, value |-> value, offset |-> offset]

DecodeError == Decoded(FALSE, JsUndefined, 0)

\* buffer.readUInt16BE(offset), buffer.readUInt32BE(offset)
ReadUInt16BE(buffer, offset) == buffer[offset + 1] * 256 + buffer[offset + 2]
ReadUInt32BE(buffer, offset) ==
    buffer[offset + 1] * 16777216 + buffer[offset + 2] * 65536
    + buffer[offset + 3] * 256 + buffer[offset + 4]

\* buffer.readDoubleBE(offset): the integer the 8 bytes stand for, or, for
\* any other double, a number named by its bytes
ReadDoubleBE(buffer, offset) ==
    LET b == SubSeq(buffer, offset + 1, offset + 8)
        exponent == (b[1] % 128) * 16 + b[2] \div 16
        fraction == (b[2] % 16) * 65536 + b[3] * 256 + b[4]
        e == exponent - 1023
        whole == /\ b[5] = 0 /\ b[6] = 0 /\ b[7] = 0 /\ b[8] = 0
                 /\ e >= 0 /\ e <= 20
                 /\ fraction % Pow2(20 - e) = 0
        mag == Pow2(e) + fraction \div Pow2(20 - e)
    IN  IF exponent = 0 /\ fraction = 0 /\ b[1] = 0
           /\ b[5] = 0 /\ b[6] = 0 /\ b[7] = 0 /\ b[8] = 0
        THEN JsNumber(0)
        ELSE IF whole THEN JsNumber(IF b[1] >= 128 THEN -mag ELSE mag)
        ELSE JsValue("number", 0, b)

\* buffer[offset] behind the end of the buffer is undefined, and an offset
\* that undefined was added to is NaN
Undefined == -1
NaN == -1

\* -1 - undefined
NaNValue == JsValue("number", 0, <<127, 248, 0, 0, 0, 0, 0, 0>>)

\* readLength(); the length byte of additionalInfo 24 is read without a
\* test of the offset
readLength(buffer, additionalInfo, offset) ==
    IF additionalInfo < 24 THEN Decoded(TRUE, additionalInfo, offset)
    ELSE IF additionalInfo = 24 THEN
        IF offset + 1 > Len(buffer) THEN Decoded(TRUE, Undefined, offset + 1)
        ELSE Decoded(TRUE, buffer[offset + 1], offset + 1)
    ELSE IF additionalInfo = 25 THEN
        IF offset + 2 > Len(buffer) THEN DecodeError
        ELSE Decoded(TRUE, ReadUInt16BE(buffer, offset), offset + 2)
    ELSE IF additionalInfo = 26 THEN
        IF offset + 4 > Len(buffer) THEN DecodeError
        ELSE Decoded(TRUE, ReadUInt32BE(buffer, offset), offset + 4)
    ELSE DecodeError

\* buffer.slice(offset, offset + len): cut at the end of the buffer
Slice(buffer, offset, len) ==
    SubSeq(buffer, offset + 1,
           IF offset + len > Len(buffer) THEN Len(buffer) ELSE offset + len)

\* the property key "__proto__"
ProtoKey == JsString(<<95, 95, 112, 114, 111, 116, 111, 95, 95>>)

\* the decimal digits of a non-negative integer, as bytes
RECURSIVE Digits(_)
Digits(n) == IF n < 10 THEN <<48 + n>> ELSE Digits(n \div 10) \o <<48 + (n % 10)>>

\* the property key JavaScript makes of the key of obj[key]: a string is
\* itself, an integer its decimal digits, the special values their names;
\* a key of any other type is left as it is
ToPropertyKey(key) ==
    IF key.t = "number" /\ key.s = <<>>
    THEN JsString(IF key.n < 0 THEN <<45>> \o Digits(-key.n) ELSE Digits(key.n))
    ELSE IF key.t = "null" THEN JsString(<<110, 117, 108, 108>>)
    ELSE IF key.t = "undefined"
    THEN JsString(<<117, 110, 100, 101, 102, 105, 110, 101, 100>>)
    ELSE IF key.t = "boolean"
    THEN JsString(IF key.n = 1 THEN <<116, 114, 117, 101>>
                  ELSE <<102, 97, 108, 115, 101>>)
    ELSE key

\* the loop of obj[key] = value over the decoded keys and values (flat holds
\* key 1, value 1, key 2, ...) on an object made by {}: "__proto__" is the
\* accessor of Object.prototype, so assigning to it makes no property of
\* the object; a key assigned twice keeps the place of its first
\* assignment and the value of its last; the properties are in the order
\* of their first assignment
assignAll(flat) ==
    LET n == Len(flat) \div 2
        keyAt == [i \in 1..n |-> ToPropertyKey(flat[2 * i - 1])]
        first == SelectSeq([i \in 1..n |-> i],
                           LAMBDA i : /\ keyAt[i] # ProtoKey
                                      /\ \A j \in 1..(i - 1) : keyAt[j] # keyAt[i])
        last(i) == CHOOSE j \in i..n :
                       /\ keyAt[j] = keyAt[i]
                       /\ \A k \in (j + 1)..n : keyAt[k] # keyAt[i]
    IN  [m \in 1..(2 * Len(first)) |->
            IF m % 2 = 1 THEN keyAt[first[(m + 1) \div 2]]
            ELSE flat[2 * last(first[m \div 2])]]

\* decode() of decodeCBOR, and its loops over the items of an array or the
\* keys and values of a map (the items are decoded one after the other,
\* every one at the offset the one before it ended at)
RECURSIVE decode(_, _)
RECURSIVE decodeItems(_, _, _)
decodeItems(buffer, offset, count) ==
    IF count = 0 THEN Decoded(TRUE, <<>>, offset)
    ELSE IF count = 1 THEN
        LET item == decode(buffer, offset)
        IN  IF item.ok THEN Decoded(TRUE, <<item.value>>, item.offset)
            ELSE DecodeError
    ELSE
        LET first == decodeItems(buffer, offset, count \div 2)
            rest == decodeItems(buffer, first.offset, count - count \div 2)
        IN  IF first.ok /\ rest.ok
            THEN Decoded(TRUE, first.value \o rest.value, rest.offset)
            ELSE DecodeError

decode(buffer, offset) ==
    \* at offset NaN the test of the end is false and the byte is undefined:
    \* major type 0 with additionalInfo 0
    IF offset = NaN THEN Decoded(TRUE, JsNumber(0), NaN)
    ELSE IF offset >= Len(buffer) THEN DecodeError
    ELSE
    LET byte == buffer[offset + 1]
        majorType == byte \div 32
        additionalInfo == byte % 32
        len == readLength(buffer, additionalInfo, offset + 1)
    IN  IF majorType = 7 THEN
            IF additionalInfo = 20 THEN Decoded(TRUE, JsBoolean(FALSE), offset + 1)
            ELSE IF additionalInfo = 21 THEN Decoded(TRUE, JsBoolean(TRUE), offset + 1)
            ELSE IF additionalInfo = 22 THEN Decoded(TRUE, JsNull, offset + 1)
            ELSE IF additionalInfo = 23 THEN Decoded(TRUE, JsUndefined, offset + 1)
            ELSE IF additionalInfo = 27 /\ offset + 9 <= Len(buffer)
            THEN Decoded(TRUE, ReadDoubleBE(buffer, offset + 1), offset + 9)
            ELSE DecodeError
        ELSE IF majorType = 6 \/ ~len.ok THEN DecodeError
        ELSE IF len.value = Undefined THEN
            \* undefined, NaN, an empty slice (the offset becomes NaN), or a
            \* loop that does not run
            IF majorType = 0 THEN Decoded(TRUE, JsUndefined, len.offset)
            ELSE IF majorType = 1 THEN Decoded(TRUE, NaNValue, len.offset)
            ELSE IF majorType = 2 THEN Decoded(TRUE, JsBuffer(<<>>), NaN)
            ELSE IF majorType = 3 THEN Decoded(TRUE, JsString(<<>>), NaN)
            ELSE IF majorType = 4 THEN Decoded(TRUE, JsArray(<<>>), len.offset)
            ELSE Decoded(TRUE, JsObject(<<>>), len.offset)
        ELSE IF majorType = 0 THEN Decoded(TRUE, JsNumber(len.value), len.offset)
        ELSE IF majorType = 1
        THEN Decoded(TRUE, JsNumber(-1 - len.value), len.offset)
        ELSE IF majorType = 2
        THEN Decoded(TRUE, JsBuffer(Slice(buffer, len.offset, len.value)),
                     len.offset + len.value)
        ELSE IF majorType = 3
        THEN Decoded(TRUE, JsString(Slice(buffer, len.offset, len.value)),
                     len.offset + len.value)
        ELSE IF majorType = 4 THEN
            LET arr == decodeItems(buffer, len.offset, len.value)
            IN  IF arr.ok THEN Decoded(TRUE, JsArray(arr.value), arr.offset)
                ELSE DecodeError
        ELSE
            LET obj == decodeItems(buffer, len.offset, 2 * len.value)
            IN  IF obj.ok
                THEN Decoded(TRUE, JsObject(assignAll(obj.value)),
                             obj.offset)
                ELSE DecodeError

decodeCBOR(buffer) == decode(buffer, 0)

(***************************************************************************)
(* The JSON documents of the first entries and of the messages.            *)
(***************************************************************************)
NoProof == [accountId |-> "none", signerPublicKey |-> "none", signature |-> "none"]
NoPayload == [type |-> "none", publicKey |-> "none"]
NoFormat == "none"

\* JSON.stringify({ type: 'PUBLIC_KEY', publicKey }) of publishPublicKey
PublicKeyDoc(publicKey) ==
    [type |-> "PUBLIC_KEY", format |-> NoFormat, publicKey |-> publicKey,
     payload |-> NoPayload, proof |-> NoProof, data |-> NoData]

\* { type: 'ENCRYPTED_MESSAGE', format, data: encryptedPayload }
EncryptedMessageDoc(format, encryptedPayload) ==
    [type |-> "ENCRYPTED_MESSAGE", format |-> format, publicKey |-> "none",
     payload |-> NoPayload, proof |-> NoProof, data |-> encryptedPayload]

\* the key of an account on the ledger, and the proof of ownership another
\* party may put in a first entry
AccountKey(accountId) ==
    IF accountId = "owner" THEN "ownerLedgerKey" ELSE "otherLedgerKey"

OwnershipProof(accountId, signer, signature) ==
    [accountId |-> accountId, signerPublicKey |-> AccountKey(signer),
     signature |-> signature]

\* a first entry { type, publicKey, proof }: a public key next to a proof
FlatProofDoc(publicKey, proof) ==
    [type |-> "PUBLIC_KEY", format |-> NoFormat, publicKey |-> publicKey,
     payload |-> NoPayload, proof |-> proof, data |-> NoData]

\* a first entry { payload: { type, publicKey }, proof }
WrappedDoc(publicKey, proof) ==
    [type |-> "none", format |-> NoFormat, publicKey |-> "none",
     payload |-> [type |-> "PUBLIC_KEY", publicKey |-> publicKey],
     proof |-> proof, data |-> NoData]

TestMessage == "hello"

\* the first entries another party publishes in a box of its own
OtherFirstEntryDocs ==
    <<PublicKeyDoc("otherPublicKey"),
      FlatProofDoc("otherPublicKey", OwnershipProof("owner", "owner", "valid")),
      WrappedDoc("otherPublicKey", OwnershipProof("other", "other", "valid"))>>

\* JSON texts: the byte '{' followed by one byte that names the document
JsonDocs ==
    <<PublicKeyDoc("ownerPublicKey"), PublicKeyDoc("ownerPublicKey2")>>
    \o OtherFirstEntryDocs
    \o [i \in 1..3 |->
          EncryptedMessageDoc("json",
              encryptMessage(TestMessage,
                  <<"ownerPublicKey", "ownerPublicKey2", "otherPublicKey">>[i]))]

JSONstringify(doc) ==
    <<123, CHOOSE i \in DOMAIN JsonDocs : JsonDocs[i] = doc>>

\* JSON.parse: the document, or a SyntaxError
SyntaxError ==
    [type |-> "SyntaxError", format |-> NoFormat, publicKey |-> "none",
     payload |-> NoPayload, proof |-> NoProof, data |-> NoData]

\* JSON.parse of a text of decimal digits is a number, which has none of
\* the properties of a document
ScalarDoc ==
    [type |-> "none", format |-> NoFormat, publicKey |-> "none",
     payload |-> NoPayload, proof |-> NoProof, data |-> NoData]

IsDigits(bytes) ==
    /\ Len(bytes) > 0
    /\ \A i \in DOMAIN bytes : bytes[i] \in 48..57
    /\ Len(bytes) > 1 => bytes[1] # 48

JSONparse(bytes) ==
    IF Len(bytes) = 2 /\ bytes[1] = 123 /\ bytes[2] \in DOMAIN JsonDocs
    THEN JsonDocs[bytes[2]]
    ELSE IF IsDigits(bytes) THEN ScalarDoc
    ELSE SyntaxError

(***************************************************************************)
(* The envelope as a JavaScript value: what sendMessage hands to           *)
(* encodeCBOR and what parseMessageContent gets from decodeCBOR.           *)
(***************************************************************************)
\* the strings of the envelopes, and their UTF-8 bytes
Words ==
    {"type", "format", "data", "publicKey", "ENCRYPTED_MESSAGE",
     "PUBLIC_KEY", "json", "cbor", "encryptedKey", "iv",
     "encryptedData", "hello", "ownerPublicKey", "ownerPublicKey2",
     "otherPublicKey"}

Utf8(text) ==
    CASE text = "type" -> <<116, 121, 112, 101>>
      [] text = "format" -> <<102, 111, 114, 109, 97, 116>>
      [] text = "data" -> <<100, 97, 116, 97>>
      [] text = "publicKey" -> <<112, 117, 98, 108, 105, 99, 75, 101, 121>>
      [] text = "ENCRYPTED_MESSAGE" -> <<69, 78, 67, 82, 89, 80, 84, 69, 68, 95, 77, 69, 83, 83, 65, 71, 69>>
      [] text = "PUBLIC_KEY" -> <<80, 85, 66, 76, 73, 67, 95, 75, 69, 89>>
      [] text = "json" -> <<106, 115, 111, 110>>
      [] text = "cbor" -> <<99, 98, 111, 114>>
      [] text = "encryptedKey" -> <<101, 110, 99, 114, 121, 112, 116, 101, 100, 75, 101, 121>>
      [] text = "iv" -> <<105, 118>>
      [] text = "encryptedData" -> <<101, 110, 99, 114, 121, 112, 116, 101, 100, 68, 97, 116, 97>>
      [] text = "hello" -> <<104, 101, 108, 108, 111>>
      [] text = "ownerPublicKey" -> <<111, 119, 110, 101, 114, 80, 117, 98, 108, 105, 99, 75, 101, 121>>
      [] text = "ownerPublicKey2" -> <<111, 119, 110, 101, 114, 80, 117, 98, 108, 105, 99, 75, 101, 121, 50>>
      [] text = "otherPublicKey" -> <<111, 116, 104, 101, 114, 80, 117, 98, 108, 105, 99, 75, 101, 121>>
      [] OTHER -> <<>>

\* the string of the model that has these bytes
FromUtf8(bytes) ==
    IF \E w \in Words : Utf8(w) = bytes
    THEN CHOOSE w \in Words : Utf8(w) = bytes
    ELSE "other"

JsText(text) == JsString(Utf8(text))

\* { encryptedKey, iv, encryptedData } of encryptMessage
PayloadValue(encryptedPayload) ==
    JsObject(<<JsText("encryptedKey"), JsText(encryptedPayload.key),
               JsText("iv"), JsText("iv"),
               JsText("encryptedData"), JsText(encryptedPayload.plaintext)>>)

\* { type: 'ENCRYPTED_MESSAGE', format, data: encryptedPayload }
DocValue(doc) ==
    JsObject(<<JsText("type"), JsText(doc.type),
               JsText("format"), JsText(doc.format),
               JsText("data"), PayloadValue(doc.data)>>)

\* value.name: the property of an object, undefined when there is none
Get(value, name) ==
    LET at == {i \in 1..(Len(value.s) \div 2) :
                    value.s[2 * i - 1] = JsText(name)}
    IN  IF value.t = "object" /\ at # {}
        THEN value.s[2 * (CHOOSE i \in at : TRUE)]
        ELSE JsUndefined

\* whether JavaScript takes the value for true in a condition
Truthy(value) ==
    /\ value.t \notin {"null", "undefined"}
    /\ value.t \in {"boolean", "number"} => value.n # 0 \/ value.s # <<>>
    /\ value.t = "string" => value.s # <<>>

TextOf(value) == IF value.t = "string" THEN FromUtf8(value.s) ELSE "none"

\* the properties of a decoded value that the reader looks at: type,
\* format, publicKey, and encryptedKey and encryptedData of data
ValueDoc(value) ==
    LET data == Get(value, "data")
    IN  [type |-> TextOf(Get(value, "type")),
         format |-> TextOf(Get(value, "format")),
         publicKey |-> TextOf(Get(value, "publicKey")),
         payload |-> NoPayload, proof |-> NoProof,
         data |-> IF /\ Truthy(Get(data, "encryptedKey"))
                     /\ Truthy(Get(data, "encryptedData"))
                  THEN [key |-> TextOf(Get(data, "encryptedKey")),
                        plaintext |-> TextOf(Get(data, "encryptedData"))]
                  ELSE NoData]

\* parsed: null
NullDoc ==
    [type |-> "none", format |-> NoFormat, publicKey |-> "none",
     payload |-> NoPayload, proof |-> NoProof, data |-> NoData]

\* parseMessageContent with only its JSON.parse
parseMessageContent_JsonOnly(messageBuffer) ==
    LET doc == JSONparse(messageBuffer)
    IN  IF doc # SyntaxError THEN [parsed |-> doc, format |-> "json"]
        ELSE [parsed |-> NullDoc, format |-> "plain"]

\* parseMessageContent taking whatever decodeCBOR returns
parseMessageContent_AnyCbor(messageBuffer) ==
    LET decoded == decodeCBOR(messageBuffer)
        doc == JSONparse(messageBuffer)
    IN  IF Len(messageBuffer) > 0 /\ decoded.ok
        THEN [parsed |-> ValueDoc(decoded.value), format |-> "cbor"]
        ELSE IF doc # SyntaxError THEN [parsed |-> doc, format |-> "json"]
        ELSE [parsed |-> NullDoc, format |-> "plain"]

\* parseMessageContent: CBOR is tried first unless the first byte is '{'
\* or '[', and taken when it decodes to an object with a type; then JSON;
\* then plain text
parseMessageContent(messageBuffer) ==
    LET tryCbor == /\ Len(messageBuffer) > 0
                   /\ messageBuffer[1] \notin {123, 91}
        decoded == decodeCBOR(messageBuffer)
        doc == JSONparse(messageBuffer)
    IN  IF /\ tryCbor
           /\ decoded.ok
           /\ decoded.value.t \in {"object", "array", "buffer"}
           /\ Truthy(Get(decoded.value, "type"))
        THEN [parsed |-> ValueDoc(decoded.value), format |-> "cbor"]
        ELSE IF doc # SyntaxError THEN [parsed |-> doc, format |-> "json"]
        ELSE [parsed |-> NullDoc, format |-> "plain"]

Reverse(list) == [i \in 1..Len(list) |-> list[Len(list) + 1 - i]]

\* queryTopicMessages: the entries the mirror node answers with. The
\* sequence filter is sent only when options.sequenceNumber is truthy.
queryTopicMessages_Gte(topicId, sequenceNumber, order, limit) ==
    LET log == IF topicId \in DOMAIN topics THEN topics[topicId] ELSE <<>>
        found == SelectSeq(log,
                    LAMBDA m : m.sequence_number >= sequenceNumber)
        listed == IF order = "desc" THEN Reverse(found) ELSE found
    IN  SubSeq(listed, 1, IF Len(listed) < limit THEN Len(listed) ELSE limit)

queryTopicMessages(topicId, sequenceNumber, order, limit) ==
    LET log == IF topicId \in DOMAIN topics THEN topics[topicId] ELSE <<>>
        found == SelectSeq(log,
                    LAMBDA m : sequenceNumber = 0
                               \/ m.sequence_number > sequenceNumber)
        listed == IF order = "desc" THEN Reverse(found) ELSE found
    IN  SubSeq(listed, 1, IF Len(listed) < limit THEN Len(listed) ELSE limit)

\* response.messages?.[0]?.sequence_number || null, with 0 for null
getLatestSequenceNumber(topicId) ==
    LET found == queryTopicMessages(topicId, 0, "desc", 1)
    IN  IF Len(found) = 0 THEN 0 ELSE found[1].sequence_number

\* response.messages?.[0] || null; null is the entry with sequence number 0
NoMessage == Msg(0, <<>>, NoChunk)

getFirstTopicMessage(topicId) ==
    LET found == queryTopicMessages(topicId, 0, "asc", 1)
    IN  IF Len(found) = 0 THEN NoMessage ELSE found[1]

getNewMessages(topicId, afterSequenceNumber) ==
    reassembleChunkedMessages(
        queryTopicMessages(topicId, afterSequenceNumber, "asc", PageLimit))

NoKey == "none"

(***************************************************************************)
(* setupMessageBox, one step for each call it awaits.  A transaction on    *)
(* the ledger (createTopic, submitMessageToHCS, updateAccountMemo) is      *)
(* applied and returns success ("ok"), returns { success: false } without  *)
(* being applied ("fail"), or rejects ("throw"); a read of the mirror node *)
(* answers or rejects.                                                     *)
(***************************************************************************)
TxOutcomes == {"ok", "fail", "throw"}

SetupIdle ==
    [pc |-> "idle", privateKey |-> NoKey, messageBoxId |-> 0,
     newMessageBoxId |-> 0,
     \* the ledger as the call found it
     memoBefore |-> EmptyMemo, firstBefore |-> NoMessage,
     \* the outcome of each transaction of the call
     createTopic |-> "none", publishPublicKey |-> "none",
     updateAccountMemo |-> "none",
     \* what the call returned, and the ledger at that moment
     result |-> "none", returnedId |-> 0,
     memoAtReturn |-> EmptyMemo, firstAtReturn |-> NoMessage]

SentNone ==
    [kind |-> "none", recipientAccountId |-> "none", messageBoxId |-> 0,
     firstEntry |-> NoMessage, encryptedWith |-> "none", submitted |-> FALSE,
     error |-> "none"]

OpIdle ==
    /\ setup = SetupIdle
    /\ sent = SentNone
    /\ outbox = {}

CheckedNone ==
    [kind |-> "none", startSequence |-> 0, endSequence |-> 0, logLen |-> 0,
     messages |-> <<>>]

CborNone == [kind |-> "none", value |-> JsUndefined, decoded |-> DecodeError]

RemovedNone ==
    [kind |-> "none", memoRead |-> FALSE, accountMemo |-> EmptyMemo,
     submitted |-> FALSE, success |-> FALSE, error |-> "none"]

\* a key is one part of a named pair
PrivateOf(pair) == [part |-> "private", pair |-> pair]
PublicOf(pair) == [part |-> "public", pair |-> pair]

\* a PEM string, and the object { type: 'ECIES', key, curve }
Pem(key) == [typeof |-> "string", type |-> "undefined", key |-> key,
             curve |-> "undefined"]
EciesKey(key, curve) == [typeof |-> "object", type |-> "ECIES", key |-> key,
                         curve |-> curve]

\* what a call gave: the value it returned or the error it threw
Returned(value) == [ok |-> TRUE, value |-> value]
Thrown(message) == [ok |-> FALSE, error |-> message]

CryptoNone ==
    [kind |-> "none", message |-> "", publicKey |-> Pem(PublicOf("rsaA")),
     encrypted |-> Thrown("none"), privateKey |-> Pem(PrivateOf("rsaA")),
     decrypted |-> Thrown("none")]

\* the byte length of a key in each form
KeyLength(part, form) ==
    CASE part = "private" -> 32
      [] form = "raw" -> 32
      [] form = "compressed" -> 33
      [] OTHER -> 65

\* Buffer.from(hex, 'hex') of a key: the private key is 32 bytes that either
\* family takes; a public key is the point of one family in one form
KeyBuffer(pair, part, family, form) ==
    [pair |-> pair, part |-> part, family |-> family, form |-> form,
     length |-> KeyLength(part, form), byte |-> 0 - 1]

SigNone ==
    [kind |-> "none", message |-> "", privateKey |-> KeyBuffer("none", "private", "any", "raw"),
     keyType |-> "none", signature |-> Thrown("none"),
     verifiedMessage |-> "", publicKey |-> KeyBuffer("none", "public", "none", "raw"),
     verifiedKeyType |-> "none", verified |-> Thrown("none")]

CryptoIdle ==
    /\ cryptoCall = CryptoNone
    /\ sigCall = SigNone

\* no getMessagesInRange call and no listen command
RangeNone ==
    [pc |-> "idle", topicId |-> 0, startSequence |-> 0, endSequence |-> 0,
     lastSequence |-> 0, hasMore |-> FALSE, allMessages |-> <<>>,
     requests |-> <<>>, pages |-> <<>>, thrown |-> FALSE]

ListenerNone == [pc |-> "idle", inFlight |-> 0, cacheAtStart |-> <<>>]

\* no call of the codec
CodecNone == [fn |-> "none", input |-> <<>>, result |-> <<>>]

CodecIdle == codecCall = CodecNone

LoopIdle ==
    /\ rangeCall = RangeNone
    /\ listener = ListenerNone

ToolsIdle ==
    /\ CryptoIdle
    /\ LoopIdle
    /\ CodecIdle
    /\ removed = RemovedNone
    /\ checked = CheckedNone
    /\ cborValue = JsUndefined
    /\ cborResult = CborNone

\* checkMessageBoxStatus(messageBoxId)
checkMessageBoxStatus(messageBoxId, readOk) ==
    IF ~readOk THEN [exists |-> FALSE, hasPublicKey |-> FALSE]
    ELSE LET firstMessage == getFirstTopicMessage(messageBoxId)
             parsed == JSONparse(B64Decode(firstMessage.message))
         IN  IF firstMessage = NoMessage
             THEN [exists |-> TRUE, hasPublicKey |-> FALSE]
             ELSE [exists |-> TRUE,
                   hasPublicKey |-> parsed.type = "PUBLIC_KEY"
                                    /\ parsed.publicKey # "none"]

\* getPublicKeyFromTopic(topicId): the key, or a throw
getPublicKeyFromTopic(topicId, readOk) ==
    LET response == getFirstTopicMessage(topicId)
        parsed == JSONparse(B64Decode(response.message))
    IN  IF readOk /\ response # NoMessage /\ Len(response.message) > 0
           /\ parsed.type = "PUBLIC_KEY" /\ parsed.publicKey # "none"
        THEN [ok |-> TRUE, publicKey |-> parsed.publicKey]
        ELSE [ok |-> FALSE, publicKey |-> "none"]

\* verifyKeyPairMatchesTopic(messageBoxId, privateKey)
verifyKeyPairMatchesTopic_KeyPresent(messageBoxId, privateKey, readOk) ==
    getPublicKeyFromTopic(messageBoxId, readOk).ok

verifyKeyPairMatchesTopic(messageBoxId, privateKey, readOk) ==
    LET messageBoxPublicKey == getPublicKeyFromTopic(messageBoxId, readOk)
        encrypted == encryptMessage("key_verification_test",
                                    messageBoxPublicKey.publicKey)
        decrypted == decryptMessage(encrypted, privateKey)
    IN  /\ messageBoxPublicKey.ok
        /\ decrypted.ok
        /\ decrypted.text = "key_verification_test"

\* submitMessageToHCS applied: the logs with one more entry in topicId
submitMessageToHCS(topicId, messageData) ==
    [topics EXCEPT ![topicId] =
        Append(@, Msg(Len(@) + 1, B64Encode(messageData), NoChunk))]

\* loadOrGenerateRSAKeyPair and getAccountMemo
SetupStart ==
    /\ setup.pc \in {"idle", "done"}
    /\ \E memoOk \in BOOLEAN :
        LET loaded == loadOrGenerateRSAKeyPair(dataDir)
            messageBoxId == extractMessageBoxIdFromMemo(memo[Owner])
            call == [SetupIdle EXCEPT
                        !.privateKey = PrivateKeyIn(loaded),
                        !.memoBefore = memo[Owner],
                        !.firstBefore = getFirstTopicMessage(messageBoxId)]
        IN  /\ dataDir' = loaded
            /\ setup' = IF ~memoOk
                        THEN [call EXCEPT !.pc = "done", !.result = "throw"]
                        ELSE [call EXCEPT
                                !.messageBoxId = messageBoxId,
                                !.pc = IF messageBoxId # 0
                                       THEN "checkMessageBoxStatus"
                                       ELSE "createTopic"]
    /\ UNCHANGED <<topics, memo, sent, outbox, pollVars, reasmVars,
                   toolVars>>

SetupCheckStatus ==
    /\ setup.pc = "checkMessageBoxStatus"
    /\ \E readOk \in BOOLEAN :
        LET status == checkMessageBoxStatus(setup.messageBoxId, readOk)
        IN  setup' = [setup EXCEPT
                        !.pc = IF status.exists /\ status.hasPublicKey
                               THEN "verifyKeyPairMatchesTopic"
                               ELSE "createTopic"]
    /\ UNCHANGED <<topics, memo, dataDir, sent, outbox, pollVars, reasmVars,
                   toolVars>>

SetupVerifyKeys ==
    /\ setup.pc = "verifyKeyPairMatchesTopic"
    /\ \E readOk \in BOOLEAN :
        LET keysMatch == verifyKeyPairMatchesTopic(setup.messageBoxId,
                                                   setup.privateKey, readOk)
        IN  setup' = IF keysMatch
                     THEN [setup EXCEPT
                            !.pc = "done", !.result = "success",
                            !.returnedId = setup.messageBoxId,
                            !.memoAtReturn = memo[Owner],
                            !.firstAtReturn =
                                getFirstTopicMessage(setup.messageBoxId)]
                     ELSE [setup EXCEPT !.pc = "question"]
    /\ UNCHANGED <<topics, memo, dataDir, sent, outbox, pollVars, reasmVars,
                   toolVars>>

\* '? Create new message box? (yes/no): ', and process.exit(1) on a no
SetupQuestion ==
    /\ setup.pc = "question"
    /\ \E answer \in {"yes", "no"} :
        setup' = IF answer = "yes"
                 THEN [setup EXCEPT !.pc = "createTopic"]
                 ELSE [setup EXCEPT !.pc = "done", !.result = "exit"]
    /\ UNCHANGED <<topics, memo, dataDir, sent, outbox, pollVars, reasmVars,
                   toolVars>>

\* createTopic, and the throw when it returns { success: false }
SetupCreateTopic ==
    /\ setup.pc = "createTopic"
    /\ \E outcome \in TxOutcomes :
        IF outcome = "ok" THEN
            /\ Len(topics) < MaxTopics
            /\ topics' = Append(topics, <<>>)
            /\ setup' = [setup EXCEPT
                            !.createTopic = outcome,
                            !.newMessageBoxId = Len(topics) + 1,
                            !.pc = "publishPublicKey"]
        ELSE
            /\ setup' = [setup EXCEPT !.createTopic = outcome,
                                      !.pc = "done", !.result = "throw"]
            /\ UNCHANGED topics
    /\ UNCHANGED <<memo, dataDir, sent, outbox, pollVars, reasmVars, toolVars>>

\* publishPublicKey: what submitMessageToHCS returns is not looked at
SetupPublishPublicKey ==
    /\ setup.pc = "publishPublicKey"
    /\ \E outcome \in TxOutcomes :
        /\ outcome = "ok" => Len(topics[setup.newMessageBoxId]) < MaxBoxLog
        /\ topics' = IF outcome = "ok"
                     THEN submitMessageToHCS(setup.newMessageBoxId,
                            JSONstringify(
                                PublicKeyDoc(PublicKeyOf(setup.privateKey))))
                     ELSE topics
        /\ setup' = IF outcome = "throw"
                    THEN [setup EXCEPT !.publishPublicKey = outcome,
                                       !.pc = "done", !.result = "throw"]
                    ELSE [setup EXCEPT !.publishPublicKey = outcome,
                                       !.pc = "updateAccountMemo"]
    /\ UNCHANGED <<memo, dataDir, sent, outbox, pollVars, reasmVars, toolVars>>

\* updateAccountMemo, whose result is not looked at either, and the return
SetupUpdateMemo ==
    /\ setup.pc = "updateAccountMemo"
    /\ \E outcome \in TxOutcomes :
        /\ memo' = IF outcome = "ok"
                   THEN [memo EXCEPT ![Owner] = BoxMemo(setup.newMessageBoxId)]
                   ELSE memo
        /\ setup' = IF outcome = "throw"
                    THEN [setup EXCEPT !.updateAccountMemo = outcome,
                                       !.pc = "done", !.result = "throw"]
                    ELSE [setup EXCEPT
                            !.updateAccountMemo = outcome,
                            !.pc = "done", !.result = "success",
                            !.returnedId = setup.newMessageBoxId,
                            !.memoAtReturn = memo'[Owner],
                            !.firstAtReturn =
                                getFirstTopicMessage(setup.newMessageBoxId)]
    /\ UNCHANGED <<topics, dataDir, sent, outbox, pollVars, reasmVars,
                   toolVars>>

\* removeMessageBox that submits the update whatever the memo is
removeMessageBox_AlwaysUpdates(accountId, memoOk, outcome) ==
    LET call == [RemovedNone EXCEPT !.kind = "throw"]
        read == [call EXCEPT !.memoRead = TRUE,
                             !.accountMemo = memo[accountId],
                             !.submitted = TRUE]
    IN  IF ~memoOk THEN
            /\ removed' = call
            /\ UNCHANGED memo
        ELSE IF outcome = "ok" THEN
            /\ memo' = [memo EXCEPT ![accountId] = EmptyMemo]
            /\ removed' = [read EXCEPT !.kind = "return", !.success = TRUE]
        ELSE
            /\ removed' = IF outcome = "fail"
                          THEN [read EXCEPT !.kind = "return",
                                            !.error = "receipt.status"]
                          ELSE read
            /\ UNCHANGED memo

\* removeMessageBox(client, accountId): getAccountMemo answers or rejects;
\* with an empty memo it returns { success: true }; else it returns what
\* updateAccountMemo(client, accountId, '') reports, or rejects with it
removeMessageBox(accountId, memoOk, outcome) ==
    LET call == [RemovedNone EXCEPT !.kind = "throw"]
        read == [call EXCEPT !.memoRead = TRUE,
                             !.accountMemo = memo[accountId]]
        updated == [read EXCEPT !.submitted = TRUE]
    IN  IF ~memoOk THEN
            /\ removed' = call
            /\ UNCHANGED memo
        ELSE IF memo[accountId] = EmptyMemo THEN
            /\ removed' = [read EXCEPT !.kind = "return", !.success = TRUE]
            /\ UNCHANGED memo
        ELSE IF outcome = "ok" THEN
            /\ memo' = [memo EXCEPT ![accountId] = EmptyMemo]
            /\ removed' = [updated EXCEPT !.kind = "return", !.success = TRUE]
        ELSE
            /\ removed' = IF outcome = "fail"
                          THEN [updated EXCEPT !.kind = "return",
                                               !.error = "receipt.status"]
                          ELSE updated
            /\ UNCHANGED memo

\* remove-message-box.js, run between two setups
RemoveMessageBox ==
    /\ setup.pc \in {"idle", "done"}
    /\ \E memoOk \in BOOLEAN, outcome \in TxOutcomes :
        removeMessageBox(Owner, memoOk, outcome)
    /\ UNCHANGED <<topics, dataDir, opVars, pollVars, reasmVars, checked,
                   cborVars, cryptoVars, loopVars, codecCall>>

\* remove-message-box.js where nothing looks at what it returned: the memo
\* is cleared when it is read, names a box and the update succeeds
RemoveBox ==
    /\ setup.pc \in {"idle", "done"}
    /\ \E memoOk \in BOOLEAN, outcome \in TxOutcomes :
        memo' = IF memoOk /\ memo[Owner] # EmptyMemo /\ outcome = "ok"
                THEN [memo EXCEPT ![Owner] = EmptyMemo]
                ELSE memo
    /\ UNCHANGED <<topics, dataDir, opVars, pollVars, reasmVars, toolVars>>

\* the key files are lost (another machine, a cleaned data directory)
DeleteKeys ==
    /\ setup.pc \in {"idle", "done"}
    /\ dataDir.stored # 0
    /\ dataDir.generated < Len(OwnerPrivateKeys)
    /\ dataDir' = [dataDir EXCEPT !.stored = 0]
    /\ UNCHANGED <<topics, memo, opVars, pollVars, reasmVars,
                   toolVars>>

(***************************************************************************)
(* Other parties: a topic takes entries from anyone, and another account   *)
(* sets up a box of its own with a first entry of its choice.              *)
(***************************************************************************)
OtherSubmits ==
    /\ \E t \in DOMAIN topics :
        /\ Len(topics[t]) < MaxBoxLog
        /\ topics' = submitMessageToHCS(t,
                        JSONstringify(PublicKeyDoc("otherPublicKey")))
    /\ UNCHANGED <<memo, dataDir, opVars, pollVars, reasmVars,
                   toolVars>>

OtherSetsUpBox ==
    /\ Len(topics) < MaxTopics
    /\ \E i \in DOMAIN OtherFirstEntryDocs :
        /\ topics' = Append(topics,
                <<Msg(1, B64Encode(JSONstringify(OtherFirstEntryDocs[i])),
                      NoChunk)>>)
        /\ memo' = [memo EXCEPT ![Other] = BoxMemo(Len(topics) + 1)]
    /\ UNCHANGED <<dataDir, opVars, pollVars, reasmVars,
                   toolVars>>

(***************************************************************************)
(* sendMessage(client, recipientAccountId, message, options)               *)
(***************************************************************************)
Recipients == Accounts \cup {"nobody"}

\* the call of sendMessage that goes wrong, if any: the request of
\* isValidAccount, of getAccountMemo or of getFirstTopicMessage fails, or
\* the submit returns { success: false } or rejects
SendFailures == {"none", "isValidAccount", "getAccountMemo",
                 "getFirstTopicMessage", "fail", "throw"}

\* whether the log of the recipient's box, if there is one, is shorter than
\* bound
SendRoom(recipientAccountId, bound) ==
    \A t \in DOMAIN topics :
        /\ recipientAccountId \in Accounts
        /\ extractMessageBoxIdFromMemo(memo[recipientAccountId]) = t
        => Len(topics[t]) < bound

sendMessage(recipientAccountId, useCBOR, failure) ==
    LET call == [SentNone EXCEPT !.kind = "throw",
                                 !.recipientAccountId = recipientAccountId]
        accountOk == failure # "isValidAccount"
        memoOk == failure # "getAccountMemo"
        readOk == failure # "getFirstTopicMessage"
        outcome == IF failure \in {"fail", "throw"} THEN failure ELSE "ok"
    IN
    IF ~(accountOk /\ recipientAccountId \in Accounts) THEN
        /\ sent' = [call EXCEPT !.error = "not a valid Hedera account"]
        /\ UNCHANGED <<topics, outbox>>
    ELSE IF ~memoOk THEN
        /\ sent' = [call EXCEPT !.error = "Mirror Node request failed"]
        /\ UNCHANGED <<topics, outbox>>
    ELSE
    LET messageBoxId == extractMessageBoxIdFromMemo(memo[recipientAccountId])
        found == [call EXCEPT
                    !.messageBoxId = messageBoxId,
                    !.firstEntry = IF readOk
                                   THEN getFirstTopicMessage(messageBoxId)
                                   ELSE NoMessage]
        publicKey == getPublicKeyFromTopic(messageBoxId, readOk)
        encryptedPayload == encryptMessage(TestMessage, publicKey.publicKey)
        document == EncryptedMessageDoc(IF useCBOR THEN "cbor" ELSE "json",
                                        encryptedPayload)
        messageData == IF useCBOR THEN encodeCBOR(DocValue(document))
                       ELSE JSONstringify(document)
        encrypted == [found EXCEPT !.encryptedWith = publicKey.publicKey]
    IN
    IF messageBoxId = 0 THEN
        /\ sent' = [call EXCEPT !.error = "Message box ID not found"]
        /\ UNCHANGED <<topics, outbox>>
    ELSE IF ~publicKey.ok THEN
        /\ sent' = [found EXCEPT !.error = "Failed to get public key from topic"]
        /\ UNCHANGED <<topics, outbox>>
    ELSE IF outcome = "ok" THEN
        /\ topics' = submitMessageToHCS(messageBoxId, messageData)
        /\ sent' = [encrypted EXCEPT !.kind = "sent", !.submitted = TRUE]
        /\ outbox' = outbox \cup
                {[topicId |-> messageBoxId,
                  sequence_number |-> Len(topics'[messageBoxId]),
                  useCBOR |-> useCBOR, document |-> document]}
    ELSE
        /\ sent' = [encrypted EXCEPT !.error = "Failed to send message"]
        /\ UNCHANGED <<topics, outbox>>

SendMessage ==
    /\ \E recipientAccountId \in Recipients, useCBOR \in BOOLEAN,
          failure \in SendFailures :
            /\ SendRoom(recipientAccountId, MaxBoxLog)
            /\ sendMessage(recipientAccountId, useCBOR, failure)
    /\ UNCHANGED <<memo, dataDir, setup, pollVars, reasmVars,
                   toolVars>>


(***************************************************************************)
(* pollMessages and listenForMessages                                      *)
(***************************************************************************)

PollInit ==
    /\ pollingCache = [firstCall |-> TRUE, lastSequenceNumber |-> 0,
                       messageBoxId |-> 0, privateKey |-> NoKey]
    /\ pollReturn = [kind |-> "none", messages |-> <<>>, cursorBefore |-> 0,
                     deliveredBefore |-> {}]
    /\ delivered = {}
    /\ sessionStart = 0
    /\ owed = {}

\* formatMessage: the text shown for one message. It names the sequence
\* number, the format and what the message is, followed by the decrypted
\* text, the error of decryptMessage, the public key or the raw text
\* (content); parsed is the envelope the text was made from.
formatMessage(msg, privateKey) ==
    LET messageBuffer == B64Decode(msg.message)
        content == parseMessageContent(messageBuffer)
        decrypted == decryptMessage(content.parsed.data, privateKey)
        shown == [Seq |-> msg.sequence_number, content |-> messageBuffer,
                  format |-> content.format, parsed |-> content.parsed,
                  kind |-> "Plain text message", text |-> "raw"]
    IN  IF content.parsed.type = "ENCRYPTED_MESSAGE" THEN
            IF decrypted.ok
            THEN [shown EXCEPT !.kind = "Encrypted message",
                               !.text = decrypted.text]
            ELSE [shown EXCEPT !.kind = "Encrypted message (cannot decrypt)",
                               !.text = "Decryption failed"]
        ELSE IF content.parsed.type = "PUBLIC_KEY"
        THEN [shown EXCEPT !.kind = "Public key published",
                           !.text = content.parsed.publicKey]
        ELSE shown

\* const lastSeq = msg._maxSequence || msg.sequence_number
lastSeqOf_SequenceOnly(msg) == msg.sequence_number

lastSeqOf(msg) ==
    IF "_maxSequence" \in DOMAIN msg /\ msg._maxSequence # 0
    THEN msg._maxSequence ELSE msg.sequence_number

\* the newMessages.forEach of listenForMessages: the cursor after the loop
RECURSIVE advanceCursor(_, _)
advanceCursor_PageOnly(cursor, newMessages) ==
    IF Len(newMessages) = 0 THEN 0
    ELSE lastSeqOf(newMessages[Len(newMessages)])

advanceCursor(cursor, newMessages) ==
    IF Len(newMessages) = 0 THEN cursor
    ELSE advanceCursor(
            IF lastSeqOf(Head(newMessages)) > cursor
            THEN lastSeqOf(Head(newMessages)) ELSE cursor,
            Tail(newMessages))

\* the messages that are complete in a log: a plain entry, or a multi-part
\* message with every chunk in the log; each named by its lowest sequence
\* number
CompleteInLog(log) ==
    {log[i].sequence_number : i \in {j \in DOMAIN log : log[j].chunk_info = NoChunk}}
    \cup
    {SetMinOf({log[i].sequence_number :
                i \in {j \in DOMAIN log : log[j].chunk_info.key = k}}) :
        k \in {key \in GroupKeys :
                \A n \in 1..GroupTotal(key) :
                    \E j \in DOMAIN log :
                        /\ log[j].chunk_info.key = key
                        /\ log[j].chunk_info.number = n}}

\* the messages owed to the listener: complete in the polled box above the
\* cursor at some moment after the first poll
OwedAfter(cache, logs, before) ==
    IF cache.firstCall THEN {}
    ELSE before \cup
         {id \in CompleteInLog(IF cache.messageBoxId \in DOMAIN logs
                               THEN logs[cache.messageBoxId] ELSE <<>>) :
            id > cache.lastSequenceNumber}

SeqNumbers(list) == {list[i].sequence_number : i \in DOMAIN list}

\* pollMessages(dataDir, accountId). memoOk and fetchOk are the outcomes of
\* the calls to the mirror node: getAccountMemo, and getLatestSequenceNumber
\* or getNewMessages.
pollMessages_Reresolve(accountId, memoOk, fetchOk) ==
    LET messageBoxId == extractMessageBoxIdFromMemo(memo[accountId])
        loaded == loadOrGenerateRSAKeyPair(dataDir)
    IN  /\ pollingCache' = [pollingCache EXCEPT
                                !.firstCall = FALSE,
                                !.messageBoxId = messageBoxId,
                                !.privateKey = PrivateKeyIn(loaded)]
        /\ dataDir' = loaded
        /\ pollReturn' = [pollReturn EXCEPT !.kind = "later"]
        /\ UNCHANGED <<delivered, sessionStart, owed>>

pollMessages(accountId, memoOk, fetchOk) ==
    IF pollingCache.firstCall THEN
        LET messageBoxId == extractMessageBoxIdFromMemo(memo[accountId])
            loaded == loadOrGenerateRSAKeyPair(dataDir)
            withKey == [pollingCache EXCEPT !.privateKey = PrivateKeyIn(loaded)]
        IN  IF ~memoOk \/ messageBoxId = 0 THEN
                \* getAccountMemo rejects, or no box id: pollMessages throws
                /\ pollingCache' = withKey
                /\ dataDir' = loaded
                /\ pollReturn' = [kind |-> "throw", messages |-> <<>>,
                                  cursorBefore |-> pollingCache.lastSequenceNumber,
                                  deliveredBefore |-> delivered]
                /\ UNCHANGED <<delivered, sessionStart, owed>>
            ELSE
                LET latestSeq == getLatestSequenceNumber(messageBoxId)
                    cache == [withKey EXCEPT
                        !.messageBoxId = messageBoxId,
                        !.firstCall = FALSE,
                        !.lastSequenceNumber =
                            IF fetchOk /\ latestSeq # 0 THEN latestSeq ELSE @]
                IN  /\ pollingCache' = cache
                    /\ dataDir' = loaded
                    /\ pollReturn' = [kind |-> "first", messages |-> <<>>,
                                      cursorBefore |-> pollingCache.lastSequenceNumber,
                                      deliveredBefore |-> delivered]
                    /\ sessionStart' = latestSeq
                    /\ owed' = OwedAfter(cache, topics, owed)
                    /\ UNCHANGED delivered
    ELSE
        LET newMessages == IF fetchOk
                           THEN getNewMessages(pollingCache.messageBoxId,
                                               pollingCache.lastSequenceNumber)
                           ELSE <<>>
            cache == [pollingCache EXCEPT
                !.lastSequenceNumber = advanceCursor(@, newMessages)]
        IN  /\ pollingCache' = cache
            /\ pollReturn' = [kind |-> IF fetchOk THEN "later" ELSE "failed",
                              messages |-> [i \in DOMAIN newMessages |->
                                  formatMessage(newMessages[i],
                                                pollingCache.privateKey)],
                              cursorBefore |-> pollingCache.lastSequenceNumber,
                              deliveredBefore |-> delivered]
            /\ delivered' = delivered \cup SeqNumbers(newMessages)
            /\ owed' = OwedAfter(cache, topics, owed)
            /\ UNCHANGED <<sessionStart, dataDir>>

\* one turn of the listen loop of listen-for-new-messages.js: the next poll
\* starts when the previous one has returned
PollMessages ==
    /\ \E memoOk \in BOOLEAN, fetchOk \in BOOLEAN :
            pollMessages(Owner, memoOk, fetchOk)
    /\ UNCHANGED <<topics, memo, opVars, reasmVars, toolVars>>

(***************************************************************************)
(* Other parties write to the box: a message of one entry, or one chunk of *)
(* a multi-part message (the ledger splits a message above 1 KB into       *)
(* chunks, and the entries of other senders may fall between them).        *)
(***************************************************************************)
PublicKeyMessage ==
    B64Encode(JSONstringify(PublicKeyDoc("ownerPublicKey")))

\* the ledger after a setupMessageBox of the owner: topic 1 holds the public
\* key and the owner's memo names it
LedgerWithBox ==
    /\ topics = << <<Msg(1, PublicKeyMessage, NoChunk)>> >>
    /\ memo = [a \in Accounts |-> IF a = Owner THEN BoxMemo(1) ELSE EmptyMemo]

PollEntryKinds ==
    {NoChunk} \cup {ChunkInfo("tx2", n, GroupTotal("tx2")) : n \in 1..2}

SubmitEntry ==
    /\ \E t \in DOMAIN topics, info \in PollEntryKinds :
        /\ Len(topics[t]) < MaxLog
        /\ info # NoChunk =>
                \A i \in DOMAIN topics[t] : topics[t][i].chunk_info # info
        /\ topics' = [topics EXCEPT ![t] =
                Append(@, Msg(Len(@) + 1, KindPayload(info), info))]
        /\ owed' = OwedAfter(pollingCache, topics', owed)
    /\ UNCHANGED <<memo, dataDir, opVars, pollingCache, pollReturn, delivered,
                   sessionStart, reasmVars, toolVars>>

InitPoll ==
    /\ LedgerWithBox
    /\ ToolsIdle
    /\ dataDir = loadOrGenerateRSAKeyPair(DataDirEmpty)
    /\ OpIdle
    /\ PollInit
    /\ ReasmIdle

NextPoll ==
    \/ SubmitEntry
    \/ PollMessages

SpecPoll == InitPoll /\ [][NextPoll]_vars

(***************************************************************************)
(* The listen command (listen-for-new-messages.js): main() and its loop,   *)
(* with the poll as an awaited call that other events can fall into.       *)
(***************************************************************************)
\* main() up to the loop
ListenStart ==
    /\ listener.pc = "idle"
    /\ listener' = [listener EXCEPT !.pc = "while"]
    /\ UNCHANGED <<ledgerVars, dataDir, opVars, pollVars, reasmVars, checked,
                   cborVars, removed, cryptoVars, rangeCall,
                   codecCall>>

\* while (true) { await pollMessages(...): the call is made
ListenPoll_NoAwait ==
    /\ listener.pc \in {"while", "pollMessages"}
    /\ listener.inFlight < 2
    /\ listener' = [listener EXCEPT !.pc = "pollMessages",
                                    !.inFlight = @ + 1,
                                    !.cacheAtStart = <<pollingCache>>]
    /\ UNCHANGED <<ledgerVars, dataDir, opVars, pollVars, reasmVars, checked,
                   cborVars, removed, cryptoVars, rangeCall,
                   codecCall>>

ListenPoll ==
    /\ listener.pc = "while"
    /\ listener' = [listener EXCEPT !.pc = "pollMessages",
                                    !.inFlight = @ + 1,
                                    !.cacheAtStart = <<pollingCache>>]
    /\ UNCHANGED <<ledgerVars, dataDir, opVars, pollVars, reasmVars, checked,
                   cborVars, removed, cryptoVars, rangeCall,
                   codecCall>>

\* the awaited pollMessages settles: with messages, which are printed before
\* the 3-second timer is set, or with an error, which main() catches to
\* exit with status 1
ListenPollSettles ==
    /\ listener.pc = "pollMessages"
    /\ \E memoOk \in BOOLEAN, fetchOk \in BOOLEAN :
            pollMessages(Owner, memoOk, fetchOk)
    /\ listener' = [listener EXCEPT
                        !.pc = IF pollReturn'.kind = "throw"
                               THEN "exited" ELSE "setTimeout",
                        !.inFlight = @ - 1,
                        !.cacheAtStart = <<>>]
    /\ UNCHANGED <<topics, memo, opVars, reasmVars, checked, cborVars,
                   removed, cryptoVars, rangeCall,
                   codecCall>>

\* the 3-second timer fires and the loop takes its next turn
ListenWait ==
    /\ listener.pc = "setTimeout"
    /\ listener' = [listener EXCEPT !.pc = "while"]
    /\ UNCHANGED <<ledgerVars, dataDir, opVars, pollVars, reasmVars, checked,
                   cborVars, removed, cryptoVars, rangeCall,
                   codecCall>>

\* process.on('SIGINT'): the process exits, whatever it waits for
ListenInterrupt ==
    /\ listener.pc \in {"while", "pollMessages", "setTimeout"}
    /\ listener' = [listener EXCEPT !.pc = "exited", !.inFlight = 0,
                                    !.cacheAtStart = <<>>]
    /\ UNCHANGED <<ledgerVars, dataDir, opVars, pollVars, reasmVars, checked,
                   cborVars, removed, cryptoVars, rangeCall,
                   codecCall>>

NextListen ==
    \/ SubmitEntry
    \/ ListenStart
    \/ ListenPoll
    \/ ListenPollSettles
    \/ ListenWait
    \/ ListenInterrupt

SpecListen == InitPoll /\ [][NextListen]_vars

(***************************************************************************)
(* A polling session in which the caller passes any account id, the owner  *)
(* removes the box from the memo and the key files are deleted between two *)
(* polls.                                                                  *)
(***************************************************************************)
PollAnyAccount ==
    /\ \E accountId \in Accounts, memoOk \in BOOLEAN, fetchOk \in BOOLEAN :
            pollMessages(accountId, memoOk, fetchOk)
    /\ UNCHANGED <<topics, memo, opVars, reasmVars, toolVars>>

NextPollAccounts ==
    \/ SubmitEntry
    \/ PollAnyAccount
    \/ RemoveBox
    \/ DeleteKeys

SpecPollAccounts == InitPoll /\ [][NextPollAccounts]_vars

\* the same session when every read of the mirror node succeeds
PollMessagesReadsOk ==
    /\ pollMessages(Owner, TRUE, TRUE)
    /\ UNCHANGED <<topics, memo, opVars, reasmVars, toolVars>>

NextPollReadsOk ==
    \/ SubmitEntry
    \/ PollMessagesReadsOk

SpecPollReadsOk == InitPoll /\ [][NextPollReadsOk]_vars

(***************************************************************************)
(* getMessagesInRange and checkMessages.  endSequence is 0 when the caller *)
(* leaves it out.                                                          *)
(***************************************************************************)
\* the for loop over one page: the entries kept, the last sequence number
\* looked at, and whether the loop has met an entry above endSequence
RECURSIVE scanPage(_, _, _, _)
scanPage_KeepLast(page, startSequence, endSequence, acc) ==
    [acc EXCEPT !.allMessages =
        @ \o SelectSeq(page,
                LAMBDA msg : msg.sequence_number >= startSequence)]

scanPage(page, startSequence, endSequence, acc) ==
    IF Len(page) = 0 THEN acc
    ELSE LET msg == Head(page)
         IN  IF endSequence # 0 /\ msg.sequence_number > endSequence
             THEN [acc EXCEPT !.hasMore = FALSE]
             ELSE scanPage(Tail(page), startSequence, endSequence,
                    [acc EXCEPT
                        !.allMessages =
                            IF msg.sequence_number >= startSequence
                            THEN Append(@, msg) ELSE @,
                        !.lastSequence = msg.sequence_number])

\* the while loop: one query of the mirror node for each turn
RECURSIVE fetchRange(_, _, _, _)
fetchRange_OnePage(topicId, startSequence, endSequence, acc) ==
    scanPage(queryTopicMessages(topicId, acc.lastSequence, "asc", PageLimit),
             startSequence, endSequence, acc).allMessages

fetchRange(topicId, startSequence, endSequence, acc) ==
    LET page == queryTopicMessages(topicId, acc.lastSequence, "asc", PageLimit)
        scanned == scanPage(page, startSequence, endSequence, acc)
    IN  IF Len(page) = 0 THEN acc.allMessages
        ELSE IF ~scanned.hasMore \/ Len(page) < PageLimit
        THEN scanned.allMessages
        ELSE fetchRange(topicId, startSequence, endSequence, scanned)

getMessagesInRange(topicId, startSequence, endSequence) ==
    reassembleChunkedMessages(
        fetchRange(topicId, startSequence, endSequence,
                   [allMessages |-> <<>>, hasMore |-> TRUE,
                    lastSequence |-> startSequence - 1]))

\* checkMessages(dataDir, accountId, startSequence, endSequence); failure
\* names the request to the mirror node that fails, if any
CheckFailures == {"none", "getAccountMemo", "queryTopicMessages"}

checkMessages(accountId, startSequence, endSequence, failure) ==
    LET memoOk == failure # "getAccountMemo"
        fetchOk == failure # "queryTopicMessages"
        loaded == loadOrGenerateRSAKeyPair(dataDir)
        messageBoxId == extractMessageBoxIdFromMemo(memo[accountId])
        call == [CheckedNone EXCEPT !.kind = "throw",
                                    !.startSequence = startSequence,
                                    !.endSequence = endSequence]
        rawMessages == getMessagesInRange(messageBoxId, startSequence,
                                          endSequence)
    IN  /\ dataDir' = loaded
        /\ checked' =
            IF ~memoOk \/ messageBoxId = 0 \/ ~fetchOk THEN call
            ELSE [call EXCEPT
                    !.kind = "ok",
                    !.logLen = Len(topics[messageBoxId]),
                    !.messages = [i \in DOMAIN rawMessages |->
                        formatMessage(rawMessages[i], PrivateKeyIn(loaded))]]

\* check-messages.js: one run of the command. It goes on only with a start
\* of at least 1 and an end that is left out or not below the start.
CheckMessages ==
    /\ \E startSequence \in 1..MaxLog, endSequence \in 0..MaxLog,
          failure \in CheckFailures :
        /\ endSequence = 0 \/ endSequence >= startSequence
        /\ checkMessages(Owner, startSequence, endSequence, failure)
    /\ UNCHANGED <<topics, memo, opVars, pollVars, reasmVars, cborVars,
                   removed, cryptoVars, loopVars, codecCall>>

NextRange ==
    \/ SubmitEntry
    \/ CheckMessages

SpecRange == InitPoll /\ [][NextRange]_vars

(***************************************************************************)
(* getMessagesInRange turn by turn: every turn of its while loop awaits    *)
(* one request to the mirror node, and the log can grow between two turns. *)
(***************************************************************************)
\* the call starts: allMessages = [], hasMore = true,
\* lastSequence = startSequence - 1
RangeStart ==
    /\ rangeCall.pc = "idle"
    /\ \E topicId \in DOMAIN topics, startSequence \in 1..MaxLog,
          endSequence \in 0..MaxLog :
        /\ endSequence = 0 \/ endSequence >= startSequence
        /\ rangeCall' = [RangeNone EXCEPT
                            !.pc = "while",
                            !.topicId = topicId,
                            !.startSequence = startSequence,
                            !.endSequence = endSequence,
                            !.lastSequence = startSequence - 1,
                            !.hasMore = TRUE]
    /\ UNCHANGED <<ledgerVars, dataDir, opVars, pollVars, reasmVars, checked,
                   cborVars, removed, cryptoVars, listener, codecCall>>

\* one turn of `while (hasMore)`: the request, the for loop over the page
\* and the test of the page's length; a request that fails ends the call
\* with `Failed to get messages in range`
RangePage ==
    /\ rangeCall.pc = "while"
    /\ \E fetchOk \in BOOLEAN :
        LET page == queryTopicMessages(rangeCall.topicId,
                        rangeCall.lastSequence, "asc", PageLimit)
            asked == [rangeCall EXCEPT
                        !.requests = Append(@, rangeCall.lastSequence)]
            scanned == scanPage(page, rangeCall.startSequence,
                                rangeCall.endSequence, asked)
            hasMore == scanned.hasMore /\ Len(page) >= PageLimit
        IN  rangeCall' =
                IF ~fetchOk
                THEN [asked EXCEPT !.pc = "done", !.thrown = TRUE]
                ELSE IF Len(page) = 0
                THEN [asked EXCEPT !.pc = "done", !.hasMore = FALSE,
                                   !.pages = Append(@, page)]
                ELSE [scanned EXCEPT
                        !.pc = IF hasMore THEN "while" ELSE "done",
                        !.hasMore = hasMore,
                        !.pages = Append(@, page)]
    /\ UNCHANGED <<ledgerVars, dataDir, opVars, pollVars, reasmVars, checked,
                   cborVars, removed, cryptoVars, listener, codecCall>>

NextRangeLoop ==
    \/ SubmitEntry
    \/ RangeStart
    \/ RangePage

\* a request to the mirror node is answered or fails: the loop takes its
\* next turn
SpecRangeLoop == InitPoll /\ [][NextRangeLoop]_vars /\ WF_vars(RangePage)

(***************************************************************************)
(* Writing to a box in both formats and reading it: the owner's box exists *)
(* as in InitPoll, messages are sent to the owner with sendMessage, and    *)
(* the owner reads with checkMessages and pollMessages.                    *)
(***************************************************************************)
SendToOwner ==
    /\ \E useCBOR \in BOOLEAN, failure \in {"none", "fail"} :
        /\ SendRoom(Owner, 1 + MaxSent)
        /\ sendMessage(Owner, useCBOR, failure)
    /\ owed' = OwedAfter(pollingCache, topics', owed)
    /\ UNCHANGED <<memo, dataDir, setup, pollingCache, pollReturn, delivered,
                   sessionStart, reasmVars, toolVars>>

\* check-messages.js without a range: from sequence number 2 to the end
CheckMessagesFromTwo ==
    /\ \E failure \in CheckFailures : checkMessages(Owner, 2, 0, failure)
    /\ UNCHANGED <<topics, memo, opVars, pollVars, reasmVars, cborVars,
                   removed, cryptoVars, loopVars, codecCall>>

NextFormats ==
    \/ SendToOwner
    \/ CheckMessagesFromTwo
    \/ PollMessages

SpecFormats == InitPoll /\ [][NextFormats]_vars

(***************************************************************************)
(* The CBOR codec on its own: a value is chosen among the supported ones   *)
(* at the thresholds of the encoder, wrapped in arrays and maps, and       *)
(* handed to encodeCBOR and then decodeCBOR.                               *)
(***************************************************************************)
\* the lengths and magnitudes around which the encoder changes the head
Thresholds == {0, 1, 23, 24, 255, 256, 65535, 65536}

\* numbers of items of an array or entries of a map: the heads of arrays
\* and maps change at 24 and 256 only
ItemCounts == {0, 1, 23, 24, 255, 256}

Bytes(len, byte) == [i \in 1..len |-> byte]

CborAtoms ==
    {JsNull, JsUndefined, JsBoolean(TRUE), JsBoolean(FALSE)}
    \cup {JsNumber(n) : n \in Thresholds \cup {-1, -24, -25, -65536}}
    \cup {JsString(Bytes(len, 97)) : len \in Thresholds}
    \cup {JsBuffer(Bytes(len, 1)) : len \in Thresholds}

RECURSIVE Nesting(_)
Nesting(value) ==
    IF value.t \notin {"array", "object"} \/ value.s = <<>> THEN
        IF value.t \in {"array", "object"} THEN 1 ELSE 0
    ELSE 1 + Nesting(value.s[Len(value.s)])

\* the i-th key of a generated map: "k" and the digits of i
KeyOf(i) == JsString(<<107>> \o Digits(i))

CanRepeat(value, n) ==
    /\ Nesting(value) < MaxNesting
    /\ Len(encode(value)) <= (IF n > 1 THEN MaxItemBytes ELSE MaxWrappedBytes)

\* [value, value, ...]
CborWrapArray ==
    /\ \E n \in ItemCounts :
        /\ CanRepeat(cborValue, n)
        /\ cborValue' = JsArray([i \in 1..n |-> cborValue])
    /\ cborResult' = CborNone
    /\ UNCHANGED <<ledgerVars, dataDir, opVars, pollVars, reasmVars, checked,
                   removed, cryptoVars, loopVars, codecCall>>

\* {k1: value, k2: value, ...}
CborWrapObject ==
    /\ \E n \in ItemCounts :
        /\ CanRepeat(cborValue, n)
        /\ cborValue' = JsObject([i \in 1..(2 * n) |->
                                   IF i % 2 = 1 THEN KeyOf((i + 1) \div 2)
                                   ELSE cborValue])
    /\ cborResult' = CborNone
    /\ UNCHANGED <<ledgerVars, dataDir, opVars, pollVars, reasmVars, checked,
                   removed, cryptoVars, loopVars, codecCall>>

\* JSON.parse('{"k1": value, "__proto__": value}'): an object whose own
\* property is named "__proto__"
CborWrapProto ==
    /\ CanRepeat(cborValue, 1)
    /\ cborValue' = JsObject(<<KeyOf(1), cborValue, ProtoKey, cborValue>>)
    /\ cborResult' = CborNone
    /\ UNCHANGED <<ledgerVars, dataDir, opVars, pollVars, reasmVars, checked,
                   removed, cryptoVars, loopVars, codecCall>>

\* decodeCBOR(encodeCBOR(value))
CborRoundTrip ==
    /\ cborResult' = [kind |-> "done", value |-> cborValue,
                      decoded |-> decodeCBOR(encodeCBOR(cborValue))]
    /\ UNCHANGED <<ledgerVars, dataDir, opVars, pollVars, reasmVars, checked,
                   cborValue, removed, cryptoVars, loopVars, codecCall>>

InitCbor ==
    /\ LedgerEmpty
    /\ dataDir = DataDirEmpty
    /\ OpIdle
    /\ PollInit
    /\ ReasmIdle
    /\ checked = CheckedNone
    /\ removed = RemovedNone
    /\ LoopIdle
    /\ CodecIdle
    /\ CryptoIdle
    /\ cborValue \in CborAtoms
    /\ cborResult = CborNone

NextCbor ==
    \/ CborWrapArray
    \/ CborWrapObject
    \/ CborWrapProto
    \/ CborRoundTrip

SpecCbor == InitCbor /\ [][NextCbor]_vars

(***************************************************************************)
(* parseMessageContent on payloads of every kind: empty, JSON texts, texts *)
(* that begin like JSON, digits, encoded envelopes and their beginnings,   *)
(* and encoded values that are no envelope.                                *)
(***************************************************************************)
Prefixes(bytes) == {SubSeq(bytes, 1, n) : n \in 0..Len(bytes)}

CborEnvelope ==
    encodeCBOR(DocValue(EncryptedMessageDoc("cbor",
        encryptMessage(TestMessage, "ownerPublicKey"))))

\* values without a type, or with a type that is not truthy
UntypedValues ==
    {JsObject(<<>>),
     JsObject(<<JsText("format"), JsText("json")>>),
     JsObject(<<JsText("type"), JsString(<<>>)>>),
     JsObject(<<JsText("type"), JsNumber(0)>>),
     JsArray(<<JsText("type")>>)}

ParsePayloads ==
    {<<>>, <<123>>, <<91>>, <<123, 0>>, <<49, 50>>}
    \cup {JSONstringify(JsonDocs[i]) : i \in DOMAIN JsonDocs}
    \cup {encodeCBOR(value) : value \in CborAtoms}
    \cup {encodeCBOR(value) : value \in UntypedValues}
    \cup Prefixes(CborEnvelope)

ParseMessageContent ==
    /\ codecCall.fn = "none"
    /\ codecCall' = [codecCall EXCEPT
                        !.fn = "parseMessageContent",
                        !.result = parseMessageContent(codecCall.input)]
    /\ UNCHANGED <<ledgerVars, dataDir, opVars, pollVars, reasmVars, checked,
                   cborVars, removed, cryptoVars, loopVars>>

\* every variable but codecCall as before any call
CodecInit ==
    /\ LedgerEmpty
    /\ dataDir = DataDirEmpty
    /\ OpIdle
    /\ PollInit
    /\ ReasmIdle
    /\ checked = CheckedNone
    /\ removed = RemovedNone
    /\ LoopIdle
    /\ CryptoIdle
    /\ cborValue = JsUndefined
    /\ cborResult = CborNone

InitParse ==
    /\ CodecInit
    /\ codecCall \in {[CodecNone EXCEPT !.input = payload] :
                            payload \in ParsePayloads}

SpecParse == InitParse /\ [][ParseMessageContent]_vars

(***************************************************************************)
(* encodeCBOR on numbers of the whole range of the encoder.  A number is   *)
(* sign * (hi * 65536 + lo + half / 2): integers up to 2^33 and the values *)
(* half way between two of them.                                           *)
(***************************************************************************)
WideNumber(sign, hi, lo, half) ==
    [sign |-> sign, hi |-> hi, lo |-> lo, half |-> half]

\* Number.isInteger(value), value >= 0, value < bound (bound up to 65536)
IsInteger(x) == x.half = 0
NonNegative(x) == x.sign = 1
Below(x, bound) == x.sign = -1 \/ (x.hi = 0 /\ x.lo < bound)

\* value >= -24 for a negative value
AtLeastMinus24(x) ==
    x.hi = 0 /\ (x.lo < 24 \/ (x.lo = 24 /\ x.half = 0))

\* the bits of n, highest first
Bits(n, width) == [i \in 1..width |-> (n \div Pow2(width - i)) % 2]

RECURSIVE BitsValue(_)
BitsValue(bits) ==
    IF Len(bits) = 0 THEN 0
    ELSE 2 * BitsValue(SubSeq(bits, 1, Len(bits) - 1)) + bits[Len(bits)]

\* buf.writeDoubleBE(value): sign, the 11 bits of the exponent and the 52
\* bits of the fraction, which are the bits of the magnitude below its
\* highest one
writeDoubleBE(x) ==
    LET doubled == Bits(x.hi, 18) \o Bits(2 * x.lo + x.half, 17)
        ones == {i \in 1..35 : doubled[i] = 1}
        lead == CHOOSE i \in ones : \A j \in ones : i <= j
        exponent == 1023 + (35 - lead) - 1
        fraction == SubSeq(doubled, lead + 1, 35)
                    \o [i \in 1..(52 - (35 - lead)) |-> 0]
        signBit == IF x.sign = -1 THEN 128 ELSE 0
    IN  IF ones = {} THEN <<signBit, 0, 0, 0, 0, 0, 0, 0>>
        ELSE <<signBit + exponent \div 16,
               (exponent % 16) * 16 + BitsValue(SubSeq(fraction, 1, 4))>>
             \o [k \in 1..6 |->
                    BitsValue(SubSeq(fraction, 8 * k - 3, 8 * k + 4))]

\* buf.writeUInt32BE(value, 1): a RangeError above 2^32 - 1
writeUInt32BE(x) ==
    IF x.hi >= 65536 THEN Thrown("ERR_OUT_OF_RANGE")
    ELSE Returned(UInt16BE(x.hi) \o UInt16BE(x.lo))

\* encode(value) of encodeCBOR for typeof value === "number"
encodeNumber(x) ==
    IF IsInteger(x) /\ NonNegative(x) /\ Below(x, 24)
    THEN Returned(<<x.lo>>)
    ELSE IF IsInteger(x) /\ NonNegative(x) /\ Below(x, 256)
    THEN Returned(<<24, x.lo>>)
    ELSE IF IsInteger(x) /\ NonNegative(x) /\ Below(x, 65536)
    THEN Returned(<<25>> \o UInt16BE(x.lo))
    ELSE IF IsInteger(x) /\ NonNegative(x)
    THEN LET written == writeUInt32BE(x)
         IN  IF written.ok THEN Returned(<<26>> \o written.value)
             ELSE written
    ELSE IF IsInteger(x) /\ ~NonNegative(x) /\ AtLeastMinus24(x)
    THEN Returned(<<32 + (x.lo - 1)>>)
    ELSE Returned(<<251>> \o writeDoubleBE(x))

\* the magnitudes around which the encoder changes the head, in both parts
WideParts == {0, 1, 23, 24, 25, 255, 256, 65535}

WideNumbers ==
    {WideNumber(sign, hi, lo, half) :
        sign \in {1, -1}, hi \in {0, 1, 65535, 65536}, lo \in WideParts,
        half \in {0, 1}}
    \ {WideNumber(-1, 0, 0, 0)}

EncodeNumber ==
    /\ codecCall.fn = "none"
    /\ codecCall' = [codecCall EXCEPT
                        !.fn = "encodeCBOR",
                        !.result = encodeNumber(codecCall.input)]
    /\ UNCHANGED <<ledgerVars, dataDir, opVars, pollVars, reasmVars, checked,
                   cborVars, removed, cryptoVars, loopVars>>

InitNumbers ==
    /\ CodecInit
    /\ codecCall \in {[CodecNone EXCEPT !.input = x] : x \in WideNumbers}

SpecNumbers == InitNumbers /\ [][EncodeNumber]_vars

(***************************************************************************)
(* decodeCBOR on inputs that end early: every beginning of the encoding of *)
(* a value, and inputs with major type 6 or an unknown simple value.       *)
(***************************************************************************)
\* encodings of one value each
WholeEncodings ==
    {encodeCBOR(JsNumber(n)) : n \in {0, 23, 24, 255, 256, 65536, -1, -25}}
    \cup {encodeCBOR(JsString(Bytes(len, 97))) : len \in {0, 2, 23, 24}}
    \cup {encodeCBOR(JsBuffer(Bytes(len, 1))) : len \in {0, 2, 24}}
    \cup {encodeCBOR(JsArray(<<JsNumber(1), JsText("type")>>)),
          encodeCBOR(JsArray([i \in 1..24 |-> JsNumber(i)])),
          encodeCBOR(JsArray(<<JsString(Bytes(24, 97)), JsNumber(5)>>)),
          encodeCBOR(JsObject(<<JsText("type"), JsText("json")>>)),
          encodeCBOR(JsNull), encodeCBOR(JsBoolean(TRUE))}

\* an input of decodeCBOR: its bytes, and the encoding they begin
CutFrom(whole, length) ==
    [bytes |-> SubSeq(whole, 1, length), from |-> whole]

\* a tag (major type 6), simple values 24 and 28, additionalInfo 28
Unsupported == {<<192, 1>>, <<248, 1>>, <<252>>, <<28>>, <<124, 97>>}

DecodeInputs ==
    {CutFrom(whole, length) :
        <<whole, length>> \in
            UNION {{<<w, n>> : n \in 0..Len(w)} : w \in WholeEncodings}}
    \cup {CutFrom(bytes, Len(bytes)) : bytes \in Unsupported}

DecodeCBOR ==
    /\ codecCall.fn = "none"
    /\ codecCall' = [codecCall EXCEPT
                        !.fn = "decodeCBOR",
                        !.result = decodeCBOR(codecCall.input.bytes)]
    /\ UNCHANGED <<ledgerVars, dataDir, opVars, pollVars, reasmVars, checked,
                   cborVars, removed, cryptoVars, loopVars>>

InitDecode ==
    /\ CodecInit
    /\ codecCall \in {[CodecNone EXCEPT !.input = input] :
                            input \in DecodeInputs}

SpecDecode == InitDecode /\ [][DecodeCBOR]_vars

(***************************************************************************)
(* lib/crypto.js (src/unnamed/part_001): encryption with RSA and AES or    *)
(* with ECIES on secp256k1, and signatures.  Keys, random values and the   *)
(* results of node's crypto functions are terms: a key is a part of a      *)
(* named pair; a ciphertext names the key, the iv and the text it was made *)
(* of and opens with that key and iv only; the secret of computeSecret is  *)
(* the same for the private key of one pair with the public key of another *)
(* as the other way round.                                                 *)
(***************************************************************************)
RsaPairs == {"rsaA", "rsaB"}
EcPairs == {"ecA", "ecB"}
EphemeralPairs == {"ephemeral1", "ephemeral2"}

\* whether value.name is truthy for a property that holds an object if any
Has(value, name) == name \in DOMAIN value

\* value.name, undefined when the object has no such property
Field(value, name) ==
    IF name \in DOMAIN value THEN value[name] ELSE "undefined"

\* crypto.publicEncrypt and crypto.privateDecrypt with OAEP
publicEncrypt(key, data) ==
    IF key.part = "public" /\ key.pair \in RsaPairs
    THEN Returned([alg |-> "RSA-OAEP", pair |-> key.pair, data |-> data])
    ELSE Thrown("publicEncrypt")

privateDecrypt(key, encrypted) ==
    IF /\ key.part = "private" /\ key.pair \in RsaPairs
       /\ Field(encrypted, "alg") = "RSA-OAEP" /\ encrypted.pair = key.pair
    THEN Returned(encrypted.data)
    ELSE Thrown("privateDecrypt")

\* ecdh.setPrivateKey(privateKey); ecdh.computeSecret(publicKey)
computeSecret(privateKey, publicKey) ==
    IF /\ privateKey.part = "private" /\ publicKey.part = "public"
       /\ {privateKey.pair, publicKey.pair} \subseteq EcPairs \cup EphemeralPairs
    THEN Returned([alg |-> "ECDH", pairs |-> {privateKey.pair, publicKey.pair}])
    ELSE Thrown("computeSecret")

\* crypto.createHash('sha256').update(data).digest()
sha256(data) == [alg |-> "SHA-256", data |-> data]

\* cipher.update + cipher.final, cipher.getAuthTag, and decipher.update +
\* decipher.final after decipher.setAuthTag
cipherText(alg, key, iv, message) ==
    [alg |-> alg, key |-> key, iv |-> iv, message |-> message]

getAuthTag(key, iv, message) ==
    [alg |-> "GCM-tag", key |-> key, iv |-> iv, message |-> message]

decipherText(alg, key, iv, encrypted, authTag) ==
    IF /\ Field(encrypted, "alg") = alg
       /\ encrypted.key = key /\ encrypted.iv = iv
       /\ alg = "aes-256-gcm" =>
                authTag = getAuthTag(key, iv, encrypted.message)
    THEN Returned(encrypted.message)
    ELSE Thrown("decipher.final")

\* encryptMessageECIES; ephemeralPair and iv are the random choices
encryptMessageECIES(message, publicKeyHex, curve, ephemeralPair, iv) ==
    LET sharedSecret == computeSecret(PrivateOf(ephemeralPair), publicKeyHex)
        encryptionKey == sha256(sharedSecret.value)
    IN  IF curve # "secp256k1" \/ ~sharedSecret.ok
        THEN Thrown("ECIES encryption failed")
        ELSE Returned(
            [ephemeralPublicKey |-> PublicOf(ephemeralPair), iv |-> iv,
             encryptedData |-> cipherText("aes-256-gcm", encryptionKey, iv,
                                          message),
             authTag |-> getAuthTag(encryptionKey, iv, message),
             curve |-> curve])

\* decryptMessageECIES with the secret put in place of the key derived from it
decryptMessageECIES_NoHash(encryptedData, privateKeyHex, curve) ==
    LET sharedSecret == computeSecret(privateKeyHex,
                                      encryptedData.ephemeralPublicKey)
        decrypted == decipherText("aes-256-gcm", sharedSecret.value,
                                  encryptedData.iv,
                                  encryptedData.encryptedData,
                                  encryptedData.authTag)
    IN  IF curve # "secp256k1" \/ ~sharedSecret.ok \/ ~decrypted.ok
        THEN Thrown("ECIES decryption failed")
        ELSE decrypted

decryptMessageECIES(encryptedData, privateKeyHex, curve) ==
    LET sharedSecret == computeSecret(privateKeyHex,
                                      encryptedData.ephemeralPublicKey)
        encryptionKey == sha256(sharedSecret.value)
        decrypted == decipherText("aes-256-gcm", encryptionKey,
                                  encryptedData.iv,
                                  encryptedData.encryptedData,
                                  encryptedData.authTag)
    IN  IF curve # "secp256k1" \/ ~sharedSecret.ok \/ ~decrypted.ok
        THEN Thrown("ECIES decryption failed")
        ELSE decrypted

\* encryptMessageRSA; aesKey and iv are the random choices
encryptMessageRSA(message, publicKeyPem, aesKey, iv) ==
    LET encryptedAesKey == publicEncrypt(publicKeyPem, aesKey)
    IN  IF ~encryptedAesKey.ok THEN Thrown("RSA encryption failed")
        ELSE Returned(
            [type |-> "RSA", encryptedKey |-> encryptedAesKey.value,
             iv |-> iv,
             encryptedData |-> cipherText("aes-256-cbc", aesKey, iv, message)])

decryptMessageRSA(encryptedData, privateKey) ==
    IF /\ Has(encryptedData, "encryptedKey")
       /\ Has(encryptedData, "encryptedData")
    THEN LET aesKey == privateDecrypt(privateKey, encryptedData.encryptedKey)
             decrypted == decipherText("aes-256-cbc", aesKey.value,
                                       encryptedData.iv,
                                       encryptedData.encryptedData,
                                       "undefined")
         IN  IF ~aesKey.ok \/ ~decrypted.ok
             THEN Thrown("RSA decryption failed")
             ELSE decrypted
    ELSE Thrown("Unsupported encryption format")

\* the random values of one encryptMessage call
AesKeys == {[random |-> "aesKey1"], [random |-> "aesKey2"]}
Ivs == {[random |-> "iv1"], [random |-> "iv2"]}

\* encryptMessage of lib/crypto.js
crypto_encryptMessage(message, publicKey, aesKey, iv, ephemeralPair) ==
    IF publicKey.typeof = "object" /\ publicKey.type = "ECIES" THEN
        LET encrypted == encryptMessageECIES(
                message, publicKey.key,
                IF publicKey.curve = "undefined" THEN "secp256k1"
                ELSE publicKey.curve,
                ephemeralPair, iv)
        IN  IF encrypted.ok
            THEN Returned([type |-> "ECIES"] @@ encrypted.value)
            ELSE encrypted
    ELSE IF publicKey.typeof = "string" /\ publicKey.key.part = "public"
    THEN encryptMessageRSA(message, publicKey.key, aesKey, iv)
    ELSE Thrown("Unsupported public key format for encryption")

\* decryptMessage of lib/crypto.js
crypto_decryptMessage_TagOnly(encryptedData, privateKey) ==
    IF Field(encryptedData, "type") = "ECIES" THEN
        IF privateKey.typeof = "object"
        THEN decryptMessageECIES(encryptedData, privateKey.key,
                                 IF privateKey.curve = "undefined"
                                 THEN "secp256k1" ELSE privateKey.curve)
        ELSE Thrown("ECIES decryption requires private key object")
    ELSE IF Field(encryptedData, "type") = "RSA"
    THEN decryptMessageRSA(encryptedData, privateKey.key)
    ELSE Thrown("Unsupported encryption format")

crypto_decryptMessage(encryptedData, privateKey) ==
    IF Field(encryptedData, "type") = "ECIES" THEN
        IF privateKey.typeof = "object"
        THEN decryptMessageECIES(encryptedData, privateKey.key,
                                 IF privateKey.curve = "undefined"
                                 THEN "secp256k1" ELSE privateKey.curve)
        ELSE Thrown("ECIES decryption requires private key object")
    ELSE IF \/ Field(encryptedData, "type") = "RSA"
            \/ Has(encryptedData, "encryptedKey")
    THEN decryptMessageRSA(encryptedData, privateKey.key)
    ELSE Thrown("Unsupported encryption format")

(***************************************************************************)
(* Encrypting and decrypting on their own.                                 *)
(***************************************************************************)
Curves == {"secp256k1", "undefined", "ed25519"}

PublicKeys ==
    {Pem(PublicOf(p)) : p \in RsaPairs}
    \cup {EciesKey(PublicOf(p), c) : p \in EcPairs, c \in Curves}

PrivateKeys ==
    {Pem(PrivateOf(p)) : p \in RsaPairs}
    \cup {EciesKey(PrivateOf(p), c) : p \in EcPairs, c \in Curves}

Plaintexts == {"", "hello", "secret"}

EncryptMessage ==
    /\ \E message \in Plaintexts, publicKey \in PublicKeys, aesKey \in AesKeys,
          iv \in Ivs, ephemeralPair \in EphemeralPairs :
        cryptoCall' = [CryptoNone EXCEPT
            !.kind = "encrypted", !.message = message,
            !.publicKey = publicKey,
            !.encrypted = crypto_encryptMessage(message, publicKey, aesKey,
                                                iv, ephemeralPair)]
    /\ UNCHANGED <<ledgerVars, dataDir, opVars, pollVars, reasmVars, checked,
                   cborVars, removed, sigCall, loopVars, codecCall>>

DecryptMessage ==
    /\ cryptoCall.kind = "encrypted"
    /\ cryptoCall.encrypted.ok
    /\ \E privateKey \in PrivateKeys :
        cryptoCall' = [cryptoCall EXCEPT
            !.kind = "decrypted", !.privateKey = privateKey,
            !.decrypted = crypto_decryptMessage(cryptoCall.encrypted.value,
                                                privateKey)]
    /\ UNCHANGED <<ledgerVars, dataDir, opVars, pollVars, reasmVars, checked,
                   cborVars, removed, sigCall, loopVars, codecCall>>

InitCrypto ==
    /\ LedgerEmpty
    /\ dataDir = DataDirEmpty
    /\ OpIdle
    /\ PollInit
    /\ ReasmIdle
    /\ checked = CheckedNone
    /\ removed = RemovedNone
    /\ LoopIdle
    /\ CodecIdle
    /\ cborValue = JsUndefined
    /\ cborResult = CborNone
    /\ cryptoCall = CryptoNone
    /\ sigCall = SigNone

NextCrypto ==
    \/ EncryptMessage
    \/ DecryptMessage

SpecCrypto == InitCrypto /\ [][NextCrypto]_vars

(***************************************************************************)
(* Keys and envelopes of other shapes: key objects that are not tagged     *)
(* ECIES, the envelopes of lib/common.js, which carry no type, and         *)
(* envelopes with neither a type nor an encryptedKey.                      *)
(***************************************************************************)
\* { type: 'RSA', key: pem } and { key, curve } without a type
OtherPublicKeys ==
    {[typeof |-> "object", type |-> "RSA", key |-> PublicOf(p),
      curve |-> "undefined"] : p \in RsaPairs}
    \cup {[typeof |-> "object", type |-> "undefined", key |-> PublicOf(p),
           curve |-> "secp256k1"] : p \in EcPairs}

EncryptOtherKey ==
    /\ \E message \in Plaintexts, publicKey \in OtherPublicKeys,
          aesKey \in AesKeys, iv \in Ivs, ephemeralPair \in EphemeralPairs :
        cryptoCall' = [CryptoNone EXCEPT
            !.kind = "encrypted", !.message = message,
            !.publicKey = publicKey,
            !.encrypted = crypto_encryptMessage(message, publicKey, aesKey,
                                                iv, ephemeralPair)]
    /\ UNCHANGED <<ledgerVars, dataDir, opVars, pollVars, reasmVars, checked,
                   cborVars, removed, sigCall, loopVars, codecCall>>

\* the envelope without its type, and without type and encryptedKey
Untagged(envelope) ==
    [f \in DOMAIN envelope \ {"type"} |-> envelope[f]]

Bare(envelope) ==
    [f \in DOMAIN envelope \ {"type", "encryptedKey"} |-> envelope[f]]

DecryptOtherEnvelope ==
    /\ cryptoCall.kind = "encrypted"
    /\ cryptoCall.encrypted.ok
    /\ \E privateKey \in PrivateKeys, untagged \in BOOLEAN :
        cryptoCall' = [cryptoCall EXCEPT
            !.kind = IF untagged THEN "decryptedUntagged" ELSE "decryptedBare",
            !.privateKey = privateKey,
            !.decrypted = crypto_decryptMessage(
                IF untagged THEN Untagged(cryptoCall.encrypted.value)
                ELSE Bare(cryptoCall.encrypted.value),
                privateKey)]
    /\ UNCHANGED <<ledgerVars, dataDir, opVars, pollVars, reasmVars, checked,
                   cborVars, removed, sigCall, loopVars, codecCall>>

NextCryptoFormats ==
    \/ EncryptMessage
    \/ EncryptOtherKey
    \/ DecryptMessage
    \/ DecryptOtherEnvelope

SpecCryptoFormats == InitCrypto /\ [][NextCryptoFormats]_vars

(***************************************************************************)
(* Signatures of lib/crypto.js.  A key buffer is the bytes of one part of  *)
(* a pair in one form; a DER structure is its header bytes and the buffers *)
(* that follow; createPrivateKey and createPublicKey read the structure    *)
(* back and reject it when a length in it is not the length of what        *)
(* follows.                                                                *)
(***************************************************************************)
KeyTypes == {"ED25519", "ECDSA_SECP256K1"}

\* one byte of a DER header, and a run of them
Byte(b) ==
    [pair |-> "none", part |-> "byte", family |-> "none", form |-> "none",
     length |-> 1, byte |-> b]

DerBytes(run) == [i \in DOMAIN run |-> Byte(run[i])]

Der(parts) == [parts |-> parts]

\* the number of bytes of a run of header bytes and key buffers
RECURSIVE DerLength(_)
DerLength(parts) ==
    IF parts = <<>> THEN 0
    ELSE Head(parts).length + DerLength(Tail(parts))

createED25519PrivateKeyDER(privateKeyBuffer) ==
    LET derPrefix == DerBytes(<<48, 46, 2, 1, 0, 48, 5, 6, 3, 43, 101, 112,
                            4, 34, 4, 32>>)
    IN  Der(derPrefix \o <<privateKeyBuffer>>)

createECDSAPrivateKeyDER(privateKeyBuffer, publicKeyBuffer) ==
    LET derPrefix == DerBytes(<<48, 116, 2, 1, 1, 4, 32>>)
        curveOid == DerBytes(<<160, 7, 6, 5, 43, 129, 4, 0, 10>>)
        publicKeyPart == DerBytes(<<161, 68, 3, 66, 0>>) \o <<publicKeyBuffer>>
    IN  Der(derPrefix \o <<privateKeyBuffer>> \o curveOid \o publicKeyPart)

createED25519PublicKeyDER(publicKeyBuffer) ==
    LET derPrefix == DerBytes(<<48, 42, 48, 5, 6, 3, 43, 101, 112, 3, 33, 0>>)
    IN  Der(derPrefix \o <<publicKeyBuffer>>)

createECDSAPublicKeyDER(publicKeyBuffer) ==
    LET keyLength == publicKeyBuffer.length
        algorithmIdLength == 18
        bitStringHeaderLength == 3
        sequenceContentLength ==
            algorithmIdLength + bitStringHeaderLength + keyLength
    IN  Der(DerBytes(<<48, sequenceContentLength>>)
            \o DerBytes(<<48, 16, 6, 7, 42, 134, 72, 206, 61, 2, 1,
                       6, 5, 43, 129, 4, 0, 10>>)
            \o DerBytes(<<3, keyLength + 1, 0>>)
            \o <<publicKeyBuffer>>)

\* whether the length byte at position at counts the bytes from there to to
Counts(parts, at, to) ==
    /\ parts[at].part = "byte"
    /\ parts[at].byte < 128
    /\ parts[at].byte = DerLength(SubSeq(parts, at + 1, to))

Ed25519Oid == DerBytes(<<6, 3, 43, 101, 112>>)
EcPublicKeyOid == DerBytes(<<6, 7, 42, 134, 72, 206, 61, 2, 1>>)
Secp256k1Oid == DerBytes(<<6, 5, 43, 129, 4, 0, 10>>)

KeyObject(pair, part, family) ==
    [ok |-> TRUE, pair |-> pair, part |-> part, family |-> family]
NoKeyObject ==
    [ok |-> FALSE, pair |-> "none", part |-> "none", family |-> "none"]

\* crypto.createPrivateKey({ key, format: 'der', type })
createPrivateKey(der, type) ==
    LET parts == der.parts
        n == Len(parts)
    IN  IF /\ type = "pkcs8" /\ n = 17
           /\ parts[1] = Byte(48) /\ Counts(parts, 2, n)
           /\ SubSeq(parts, 3, 5) = DerBytes(<<2, 1, 0>>)
           /\ parts[6] = Byte(48) /\ Counts(parts, 7, 12)
           /\ SubSeq(parts, 8, 12) = Ed25519Oid
           /\ parts[13] = Byte(4) /\ Counts(parts, 14, n)
           /\ parts[15] = Byte(4) /\ Counts(parts, 16, n)
           /\ parts[17].part = "private" /\ parts[17].length = 32
        THEN KeyObject(parts[17].pair, "private", "ED25519")
        ELSE IF /\ type = "sec1" /\ n = 23
                /\ parts[1] = Byte(48) /\ Counts(parts, 2, n)
                /\ SubSeq(parts, 3, 5) = DerBytes(<<2, 1, 1>>)
                /\ parts[6] = Byte(4) /\ Counts(parts, 7, 8)
                /\ parts[8].part = "private"
                /\ parts[9] = Byte(160) /\ Counts(parts, 10, 17)
                /\ SubSeq(parts, 11, 17) = Secp256k1Oid
                /\ parts[18] = Byte(161) /\ Counts(parts, 19, n)
                /\ parts[20] = Byte(3) /\ Counts(parts, 21, n)
                /\ parts[22] = Byte(0)
                /\ parts[23].part = "public"
                /\ parts[23].family = "ECDSA_SECP256K1"
                /\ parts[23].pair = parts[8].pair
        THEN KeyObject(parts[8].pair, "private", "ECDSA_SECP256K1")
        ELSE NoKeyObject

\* crypto.createPublicKey({ key, format: 'der', type: 'spki' })
createPublicKey(der) ==
    LET parts == der.parts
        n == Len(parts)
    IN  IF /\ n = 13
           /\ parts[1] = Byte(48) /\ Counts(parts, 2, n)
           /\ parts[3] = Byte(48) /\ Counts(parts, 4, 9)
           /\ SubSeq(parts, 5, 9) = Ed25519Oid
           /\ parts[10] = Byte(3) /\ Counts(parts, 11, n)
           /\ parts[12] = Byte(0)
           /\ parts[13].part = "public"
           /\ parts[13].family = "ED25519"
        THEN KeyObject(parts[13].pair, "public", "ED25519")
        ELSE IF /\ n = 24
                /\ parts[1] = Byte(48) /\ Counts(parts, 2, n)
                /\ parts[3] = Byte(48) /\ Counts(parts, 4, 20)
                /\ SubSeq(parts, 5, 13) = EcPublicKeyOid
                /\ SubSeq(parts, 14, 20) = Secp256k1Oid
                /\ parts[21] = Byte(3) /\ Counts(parts, 22, n)
                /\ parts[23] = Byte(0)
                /\ parts[24].part = "public"
                /\ parts[24].family = "ECDSA_SECP256K1"
        THEN KeyObject(parts[24].pair, "public", "ECDSA_SECP256K1")
        ELSE NoKeyObject

\* ecdh.setPrivateKey(privateKeyBuffer); ecdh.getPublicKey()
getPublicKey(privateKeyBuffer) ==
    KeyBuffer(privateKeyBuffer.pair, "public", "ECDSA_SECP256K1",
              "uncompressed")

\* signature.toString('hex') and Buffer.from(signatureHex, 'hex'), the
\* signature being the bytes of what crypto.sign made, some of them changed
\* or not
Signature(family, pair, message, nonce, changed) ==
    [family |-> family, pair |-> pair, message |-> message,
     nonce |-> nonce, changed |-> changed]

\* crypto.sign(algorithm, data, key)
sign(algorithm, data, key, nonce) ==
    Signature(key.family, key.pair, data,
              IF key.family = "ED25519" THEN "none" ELSE nonce, FALSE)

\* crypto.verify(algorithm, data, key, signature)
verify(algorithm, data, key, signature) ==
    /\ signature.family = key.family
    /\ signature.pair = key.pair
    /\ signature.message = data
    /\ ~signature.changed

Nonces == {"k1", "k2"}

signMessage(message, privateKeyHex, keyType, nonce) ==
    LET privateKeyBuffer == privateKeyHex
    IN  IF keyType = "ED25519" THEN
            LET derKey == createED25519PrivateKeyDER(privateKeyBuffer)
                privateKeyObj == createPrivateKey(derKey, "pkcs8")
            IN  IF privateKeyObj.ok
                THEN Returned(sign("null", message, privateKeyObj, nonce))
                ELSE Thrown("Failed to sign message")
        ELSE IF keyType = "ECDSA_SECP256K1" THEN
            LET publicKeyBuffer == getPublicKey(privateKeyBuffer)
                derKey == createECDSAPrivateKeyDER(privateKeyBuffer,
                                                   publicKeyBuffer)
                privateKeyObj == createPrivateKey(derKey, "sec1")
            IN  IF privateKeyObj.ok
                THEN Returned(sign("SHA256", message, privateKeyObj, nonce))
                ELSE Thrown("Failed to sign message")
        ELSE Thrown("Failed to sign message")

\* verifySignature answering true whenever the key can be read
verifySignature_KeyOnly(message, signatureHex, publicKeyHex, keyType) ==
    LET publicKeyBuffer == publicKeyHex
        derKey == IF keyType = "ED25519"
                  THEN createED25519PublicKeyDER(publicKeyBuffer)
                  ELSE createECDSAPublicKeyDER(publicKeyBuffer)
        publicKeyObj == createPublicKey(derKey)
    IN  IF keyType \in KeyTypes /\ publicKeyObj.ok
        THEN Returned(TRUE)
        ELSE Thrown("Failed to verify signature")

verifySignature(message, signatureHex, publicKeyHex, keyType) ==
    LET signatureBuffer == signatureHex
        publicKeyBuffer == publicKeyHex
        derKey == IF keyType = "ED25519"
                  THEN createED25519PublicKeyDER(publicKeyBuffer)
                  ELSE createECDSAPublicKeyDER(publicKeyBuffer)
        publicKeyObj == createPublicKey(derKey)
    IN  IF keyType \in KeyTypes /\ publicKeyObj.ok
        THEN Returned(verify(IF keyType = "ED25519" THEN "null" ELSE "SHA256",
                             message, publicKeyObj, signatureBuffer))
        ELSE Thrown("Failed to verify signature")

(***************************************************************************)
(* Signing, changing a signature and verifying on their own.               *)
(***************************************************************************)
SigningPairs == {"accountA", "accountB"}

PrivateKeyHexes ==
    {KeyBuffer(p, "private", "any", "raw") : p \in SigningPairs}

PublicKeyHexes ==
    {KeyBuffer(p, "public", "ED25519", "raw") : p \in SigningPairs}
    \cup {KeyBuffer(p, "public", "ECDSA_SECP256K1", f) :
            p \in SigningPairs, f \in {"compressed", "uncompressed"}}

SignMessage ==
    /\ \E message \in Plaintexts, privateKeyHex \in PrivateKeyHexes,
          keyType \in KeyTypes, nonce \in Nonces :
        sigCall' = [SigNone EXCEPT
            !.kind = "signed", !.message = message,
            !.privateKey = privateKeyHex, !.keyType = keyType,
            !.signature = signMessage(message, privateKeyHex, keyType, nonce)]
    /\ UNCHANGED <<ledgerVars, dataDir, opVars, pollVars, reasmVars, checked,
                   cborVars, removed, cryptoCall, loopVars, codecCall>>

\* one byte of the signature is changed and it stays a signature in form
ChangeSignature ==
    /\ sigCall.kind = "signed"
    /\ sigCall.signature.ok
    /\ sigCall' = [sigCall EXCEPT !.kind = "changed",
                                  !.signature.value.changed = TRUE]
    /\ UNCHANGED <<ledgerVars, dataDir, opVars, pollVars, reasmVars, checked,
                   cborVars, removed, cryptoCall, loopVars, codecCall>>

VerifySignature ==
    /\ sigCall.kind \in {"signed", "changed"}
    /\ sigCall.signature.ok
    /\ \E message \in Plaintexts, publicKeyHex \in PublicKeyHexes,
          keyType \in KeyTypes :
        sigCall' = [sigCall EXCEPT
            !.kind = "verified", !.verifiedMessage = message,
            !.publicKey = publicKeyHex, !.verifiedKeyType = keyType,
            !.verified = verifySignature(message, sigCall.signature.value,
                                         publicKeyHex, keyType)]
    /\ UNCHANGED <<ledgerVars, dataDir, opVars, pollVars, reasmVars, checked,
                   cborVars, removed, cryptoCall, loopVars, codecCall>>

InitSign ==
    /\ LedgerEmpty
    /\ dataDir = DataDirEmpty
    /\ OpIdle
    /\ PollInit
    /\ ReasmIdle
    /\ ToolsIdle

NextSign ==
    \/ SignMessage
    \/ ChangeSignature
    \/ VerifySignature

SpecSign == InitSign /\ [][NextSign]_vars

(***************************************************************************)
(* Setting up, removing and writing to message boxes.                      *)
(***************************************************************************)
Init ==
    /\ LedgerEmpty
    /\ ToolsIdle
    /\ dataDir = DataDirEmpty
    /\ OpIdle
    /\ PollInit
    /\ ReasmIdle

Next ==
    \/ SetupStart
    \/ SetupCheckStatus
    \/ SetupVerifyKeys
    \/ SetupQuestion
    \/ SetupCreateTopic
    \/ SetupPublishPublicKey
    \/ SetupUpdateMemo
    \/ RemoveBox
    \/ DeleteKeys
    \/ OtherSubmits
    \/ OtherSetsUpBox
    \/ SendMessage

Spec == Init /\ [][Next]_vars

\* the owner alone: setting up, removing, and losing the key files
NextOwner ==
    \/ SetupStart
    \/ SetupCheckStatus
    \/ SetupVerifyKeys
    \/ SetupQuestion
    \/ SetupCreateTopic
    \/ SetupPublishPublicKey
    \/ SetupUpdateMemo
    \/ RemoveMessageBox
    \/ DeleteKeys

SpecOwner == Init /\ [][NextOwner]_vars

\* the owner, and other parties writing to the owner's boxes
NextKeys ==
    \/ SetupStart
    \/ SetupCheckStatus
    \/ SetupVerifyKeys
    \/ SetupQuestion
    \/ SetupCreateTopic
    \/ SetupPublishPublicKey
    \/ SetupUpdateMemo
    \/ RemoveBox
    \/ DeleteKeys
    \/ OtherSubmits

SpecKeys == Init /\ [][NextKeys]_vars

(***************************************************************************)
(* The reassembly on its own: every list of at most MaxMsgs entries drawn  *)
(* from plain entries and the chunks of the two multi-part messages, each  *)
(* chunk at most once, with or without a payload, numbered in ascending or *)
(* in descending order.                                                    *)
(***************************************************************************)
\* sequence numbers ascend, as the mirror node lists them, or descend
NextSequence ==
    IF Len(messages) = 0 THEN {1, MaxMsgs}
    ELSE IF messages[1].sequence_number = 1 THEN {Len(messages) + 1}
    ELSE {MaxMsgs - Len(messages)}

InitReasm ==
    /\ messages = <<>>
    /\ output = <<>>
    /\ reasmDone = FALSE
    /\ reasmError = NoError
    /\ LedgerEmpty
    /\ ToolsIdle
    /\ dataDir = DataDirEmpty
    /\ OpIdle
    /\ PollInit

\* the caller puts one more entry on the list
AddMessage ==
    /\ ~reasmDone
    /\ Len(messages) < MaxMsgs
    /\ \E info \in EntryKinds, hasPayload \in BOOLEAN, seq \in NextSequence :
        /\ info # NoChunk =>
                \A i \in DOMAIN messages : messages[i].chunk_info # info
        /\ messages' = Append(messages,
                Msg(seq, IF hasPayload THEN KindPayload(info) ELSE <<>>, info))
    /\ UNCHANGED <<output, reasmDone, reasmError, ledgerVars, dataDir, opVars,
                   pollVars,
                   toolVars>>

Reassemble ==
    /\ ~reasmDone
    /\ output' = IF reassembleThrows(messages) THEN output
                  ELSE reassembleChunkedMessages(messages)
    /\ reasmError' = IF reassembleThrows(messages) THEN RangeError
                      ELSE NoError
    /\ reasmDone' = TRUE
    /\ UNCHANGED <<messages, ledgerVars, dataDir, opVars, pollVars,
                   toolVars>>

NextReasm ==
    \/ AddMessage
    \/ Reassemble

SpecReasm == InitReasm /\ [][NextReasm]_vars

(***************************************************************************)
(* The reassembly of lists the mirror node would not send: chunks numbered *)
(* outside 1..total, chunks of one message that disagree on total, totals  *)
(* that are no array length, chunks without a transaction id.              *)
(***************************************************************************)
ChunkNumbers == {0, 1, 2, MaxTotal + 1}
ChunkTotals == {0 - 1, 0, 2, MaxTotal}

MalformedKinds ==
    {NoChunk} \cup
    {ChunkInfo(key, number, total) :
        key \in {"tx1", NoTxId}, number \in ChunkNumbers, total \in ChunkTotals}

AddAnyMessage ==
    /\ ~reasmDone
    /\ Len(messages) < MaxMsgs
    /\ \E info \in MalformedKinds :
        messages' = Append(messages,
            Msg(Len(messages) + 1, B64Encode(PlainBytes), info))
    /\ UNCHANGED <<output, reasmDone, reasmError, ledgerVars, dataDir, opVars,
                   pollVars, toolVars>>

NextMalformed ==
    \/ AddAnyMessage
    \/ Reassemble

SpecMalformed == InitReasm /\ [][NextMalformed]_vars

(***************************************************************************)
(* Properties of the reassembly (SpecReasm).                               *)
(***************************************************************************)
\* the input entries of multi-part message `key`
GroupEntries(key) ==
    {i \in DOMAIN messages : messages[i].chunk_info.key = key}

\* the input entry that carries chunk `number` of `key` with a payload
ChunkAt(key, number) ==
    {i \in GroupEntries(key) :
        /\ messages[i].chunk_info.number = number
        /\ Len(messages[i].message) > 0}

GroupComplete(key) ==
    /\ GroupEntries(key) # {}
    /\ \A n \in 1..GroupTotal(key) : ChunkAt(key, n) # {}

SeqsOf(S) == {messages[i].sequence_number : i \in S}

SetMin(S) == CHOOSE x \in S : \A y \in S : x <= y
SetMax(S) == CHOOSE x \in S : \A y \in S : x >= y

\* the bytes of chunk 1, chunk 2, ... of `key`, one after the other
RECURSIVE BytesInIndexOrder(_, _)
BytesInIndexOrder(key, n) ==
    IF n = 0 THEN <<>>
    ELSE BytesInIndexOrder(key, n - 1)
         \o B64Decode(messages[CHOOSE i \in ChunkAt(key, n) : TRUE].message)

\* the output positions that come from `key`: one of its chunks, or an
\* entry put together from them (it carries the number of one of them)
DerivedFrom(key) ==
    {i \in DOMAIN output :
        \/ output[i].chunk_info.key = key
        \/ /\ "_maxSequence" \in DOMAIN output[i]
           /\ output[i].sequence_number \in SeqsOf(GroupEntries(key))}

\* C9: a multi-part message with every chunk 1..total present and non-empty
\* yields exactly one output entry: the chunks' decoded bytes joined in index
\* order, numbered with the smallest sequence number of the group and marked
\* with the largest as _maxSequence.
C9_CompleteGroupReassembled ==
    reasmDone =>
        \A key \in GroupKeys :
            GroupComplete(key) =>
                /\ Cardinality(DerivedFrom(key)) = 1
                /\ \A i \in DerivedFrom(key) :
                    output[i] =
                        [sequence_number |-> SetMin(SeqsOf(GroupEntries(key))),
                         message |-> B64Encode(
                             BytesInIndexOrder(key, GroupTotal(key))),
                         chunk_info |-> NoChunk,
                         _maxSequence |-> SetMax(SeqsOf(GroupEntries(key)))]

\* a complete message whose chunks arrive out of index order, reassembled
C9_Witness ==
    /\ reasmDone
    /\ GroupComplete("tx1")
    /\ \E i, j \in GroupEntries("tx1") :
            /\ i < j
            /\ messages[i].chunk_info.number > messages[j].chunk_info.number
    /\ DerivedFrom("tx1") # {}

\* C10: a multi-part message with a chunk of 1..total missing or empty (the
\* first one included) leaves nothing in the output: no partial
\* concatenation and none of its chunks.
C10_IncompleteGroupDropped ==
    reasmDone =>
        \A key \in GroupKeys :
            (GroupEntries(key) # {} /\ ~GroupComplete(key)) =>
                DerivedFrom(key) = {}

\* chunks 1 and 3 of a three-part message without chunk 2, next to a plain
\* entry that is passed on
C10_Witness ==
    /\ reasmDone
    /\ ChunkAt("tx1", 1) # {}
    /\ ChunkAt("tx1", 2) = {}
    /\ ChunkAt("tx1", MaxTotal) # {}
    /\ Len(output) = 1
    /\ DerivedFrom("tx1") = {}

(***************************************************************************)
(* Properties of the polling session (SpecPoll).                           *)
(***************************************************************************)
\* C1: lastSequenceNumber of the polling cache never decreases, whatever a
\* poll does: the first or a later one, succeeding, failing or throwing.
C1_CursorMonotone ==
    [][pollingCache'.lastSequenceNumber >= pollingCache.lastSequenceNumber]_vars

\* a later poll that moved a cursor the first poll had set
C1_Witness ==
    /\ pollReturn.kind = "later"
    /\ pollReturn.cursorBefore > 0
    /\ pollingCache.lastSequenceNumber > pollReturn.cursorBefore

\* C4: the first poll returns nothing, and no later poll of the session
\* returns an entry that was in the log when the first poll ran.
C4_FirstPollSkipsHistory ==
    /\ pollReturn.kind = "first" => pollReturn.messages = <<>>
    /\ pollReturn.kind = "later" =>
            \A i \in DOMAIN pollReturn.messages :
                pollReturn.messages[i].Seq > sessionStart

\* C5: a poll after the first returns only messages above the cursor the
\* previous poll left, none of them returned before and none twice.
C5_NoDuplicateDelivery ==
    pollReturn.kind = "later" =>
        /\ \A i \in DOMAIN pollReturn.messages :
                /\ pollReturn.messages[i].Seq > pollReturn.cursorBefore
                /\ pollReturn.messages[i].Seq \notin pollReturn.deliveredBefore
        /\ \A i, j \in DOMAIN pollReturn.messages :
                i # j => pollReturn.messages[i].Seq # pollReturn.messages[j].Seq

\* a poll that returns a reassembled message and a plain one after an
\* earlier poll has returned messages
C5_Witness ==
    /\ pollReturn.kind = "later"
    /\ pollReturn.deliveredBefore # {}
    /\ Len(pollReturn.messages) = 2
    /\ pollingCache.lastSequenceNumber > pollReturn.messages[2].Seq

\* C6, as a statement a finite run refutes (SpecPollReadsOk: every read
\* succeeds): the cursor never passes a message that was complete in the log
\* above it without that message having been returned. Once the cursor has
\* passed it no later poll fetches it, so it is never returned.
C6_OwedDelivered ==
    \A id \in owed :
        id \in delivered \/ id > pollingCache.lastSequenceNumber

(***************************************************************************)
(* Properties of sendMessage (Spec).                                       *)
(***************************************************************************)
\* the first entry the last sendMessage fetched, as a document
SentFirstEntry == JSONparse(B64Decode(sent.firstEntry.message))

\* the four checks on a first entry for a recipient: payload and proof are
\* present with every field of the proof populated; the proof names the
\* recipient; the signer is the key the ledger holds for the recipient; the
\* signature verifies
MissingStructure(doc) ==
    \/ doc.payload = NoPayload
    \/ doc.proof.accountId = "none"
    \/ doc.proof.signerPublicKey = "none"
    \/ doc.proof.signature = "none"

AccountMismatch(doc, accountId) == doc.proof.accountId # accountId

SignerMismatch(doc, accountId) ==
    doc.proof.signerPublicKey # AccountKey(accountId)

InvalidSignature(doc) == doc.proof.signature # "valid"

FourChecksPass(doc, accountId) ==
    /\ ~MissingStructure(doc)
    /\ ~AccountMismatch(doc, accountId)
    /\ ~SignerMismatch(doc, accountId)
    /\ ~InvalidSignature(doc)

\* C2: sendMessage encrypts and submits only after all four checks on the
\* first entry of the recipient's box have passed; when one of them fails,
\* nothing is encrypted with the key of the entry and nothing is submitted.
C2_SendOnlyAfterFourChecks ==
    (sent.kind # "none"
     /\ ~FourChecksPass(SentFirstEntry, sent.recipientAccountId))
        => (sent.encryptedWith = "none" /\ ~sent.submitted)

\* C3: when the first entry of the recipient's box carries a proof whose
\* accountId differs from the account passed to sendMessage, sendMessage
\* fails with SecurityViolation.AccountMismatch before any encryption and
\* before any submit.
C3_AccountMismatchAborts ==
    (sent.kind # "none"
     /\ SentFirstEntry.proof # NoProof
     /\ AccountMismatch(SentFirstEntry, sent.recipientAccountId))
        => (/\ sent.kind = "throw"
            /\ sent.error = "SecurityViolation.AccountMismatch"
            /\ sent.encryptedWith = "none"
            /\ ~sent.submitted)

(***************************************************************************)
(* Properties of setupMessageBox (Spec).                                   *)
(***************************************************************************)
\* the memo the call found references a box whose first entry holds the
\* public key of the local private key
ValidBoxBefore ==
    LET first == JSONparse(B64Decode(setup.firstBefore.message))
    IN  /\ extractMessageBoxIdFromMemo(setup.memoBefore) # 0
        /\ setup.firstBefore # NoMessage
        /\ first.type = "PUBLIC_KEY"
        /\ first.publicKey = PublicKeyOf(setup.privateKey)

\* C7: setupMessageBox is idempotent: run on an account whose memo
\* references a box holding the public key of the local private key, it
\* creates no topic, publishes no entry, leaves the memo as it is, and what
\* it returns is success with the id of that box.
C7_SetupIdempotent ==
    (setup.pc = "done" /\ ValidBoxBefore)
        => (/\ setup.createTopic # "ok"
            /\ setup.publishPublicKey # "ok"
            /\ setup.updateAccountMemo # "ok"
            /\ setup.result = "success" =>
                    /\ setup.returnedId =
                            extractMessageBoxIdFromMemo(setup.memoBefore)
                    /\ setup.memoAtReturn = setup.memoBefore)

\* C8: when setupMessageBox returns success after creating box X, the memo
\* references X and the first entry of X is the public key this setup
\* published; when creating the topic, publishing the entry or updating the
\* memo fails, setup does not report success.
C8_SuccessMeansBoxReady ==
    (setup.pc = "done" /\ setup.result = "success" /\ setup.createTopic # "none")
        => (/\ setup.createTopic = "ok"
            /\ setup.publishPublicKey = "ok"
            /\ setup.updateAccountMemo = "ok"
            /\ extractMessageBoxIdFromMemo(setup.memoAtReturn) = setup.returnedId
            /\ setup.firstAtReturn.message =
                    B64Encode(JSONstringify(
                        PublicKeyDoc(PublicKeyOf(setup.privateKey)))))

(***************************************************************************)
(* Properties of checkMessages (SpecRange).                                *)
(***************************************************************************)
\* the log of the box as the last checkMessages call found it
CheckedLog == SubSeq(topics[1], 1, checked.logLen)

InRange(seq) ==
    /\ seq >= checked.startSequence
    /\ checked.endSequence # 0 => seq <= checked.endSequence

CheckedSeqs == {checked.messages[i].Seq : i \in DOMAIN checked.messages}

\* C11: checkMessages(start, end) returns every message of the box whose
\* sequence number lies in [start, end] (from start on when end is left
\* out) and no message outside it; a multi-part message complete in the log
\* counts with its lowest sequence number.
C11_RangeExact ==
    checked.kind = "ok" =>
        /\ \A seq \in CompleteInLog(CheckedLog) : InRange(seq) => seq \in CheckedSeqs
        /\ \A seq \in CheckedSeqs : InRange(seq)

\* every entry of the message with lowest sequence number seq lies in the
\* range
WholeInRange(seq) ==
    \A i \in DOMAIN CheckedLog :
        (/\ CheckedLog[seq].chunk_info # NoChunk
         /\ CheckedLog[i].chunk_info.key = CheckedLog[seq].chunk_info.key)
            => InRange(i)

\* C11, amended: checkMessages(start, end) returns the messages of the box
\* all of whose entries lie in [start, end], and nothing else, also for a
\* log longer than one page; a multi-part message that a bound of the range
\* cuts is left out.
C11_RangeOfWholeMessages ==
    checked.kind = "ok" =>
        /\ \A seq \in CompleteInLog(CheckedLog) :
                (InRange(seq) /\ WholeInRange(seq)) => seq \in CheckedSeqs
        /\ \A seq \in CheckedSeqs :
                /\ InRange(seq)
                /\ WholeInRange(seq)
                /\ seq \in CompleteInLog(CheckedLog)

\* a range inside a log longer than one page that holds a multi-part
\* message and ends beyond the first page
C11_Witness ==
    /\ checked.kind = "ok"
    /\ checked.logLen > PageLimit
    /\ checked.startSequence > 1
    /\ checked.endSequence > PageLimit
    /\ checked.endSequence < checked.logLen
    /\ \E seq \in CheckedSeqs : CheckedLog[seq].chunk_info # NoChunk
    /\ \E seq \in CheckedSeqs : seq > PageLimit

\* C14: decodeCBOR(encodeCBOR(v)) returns a value structurally equal to v
C14_RoundTrip ==
    cborResult.kind = "done" =>
        /\ cborResult.decoded.ok
        /\ cborResult.decoded.value = cborResult.value

\* the round trip of every value none of whose maps has the key "__proto__"
RECURSIVE HasProtoKey(_)
HasProtoKey(value) ==
    /\ value.t \in {"array", "object"}
    /\ \E i \in 1..Len(value.s) :
        \/ value.t = "object" /\ i % 2 = 1 /\ value.s[i] = ProtoKey
        \/ HasProtoKey(value.s[i])

RoundTripWithoutProtoKey ==
    cborResult.kind = "done" /\ ~HasProtoKey(cborResult.value) =>
        /\ cborResult.decoded.ok
        /\ cborResult.decoded.value = cborResult.value

\* the envelopes sendMessage submitted at the sequence number of a shown
\* message of box 1
SentAs(shown) ==
    {e \in outbox : e.topicId = 1 /\ e.sequence_number = shown.Seq}

ReadBack(shown) ==
    \A e \in SentAs(shown) :
        /\ shown.format = (IF e.useCBOR THEN "cbor" ELSE "json")
        /\ shown.parsed = e.document
        /\ shown.kind = "Encrypted message"
        /\ shown.text = TestMessage

\* C12: a message sendMessage sent in JSON and one it sent in CBOR are read
\* back from the log by checkMessages and pollMessages: each is classified
\* by the format it was sent in, parsed to the envelope that was sent, and
\* decrypted
C12_BothFormatsReadBack ==
    /\ \A i \in DOMAIN checked.messages : ReadBack(checked.messages[i])
    /\ \A i \in DOMAIN pollReturn.messages : ReadBack(pollReturn.messages[i])

ShowsFormat(shownMessages, useCBOR) ==
    \E i \in DOMAIN shownMessages :
        \E e \in SentAs(shownMessages[i]) : e.useCBOR = useCBOR

C12_Witness ==
    /\ ShowsFormat(checked.messages, TRUE)
    /\ ShowsFormat(checked.messages, FALSE)
    /\ ShowsFormat(pollReturn.messages, TRUE)
    /\ ShowsFormat(pollReturn.messages, FALSE)

MatchingKeys(publicKey, privateKey) ==
    /\ privateKey.key = PrivateOf(publicKey.key.pair)
    /\ privateKey.typeof = publicKey.typeof
    /\ privateKey.curve \in {"secp256k1", "undefined"}

UnrelatedKeys(publicKey, privateKey) ==
    privateKey.key.pair # publicKey.key.pair

\* C15: for RSA with AES and for ECIES on secp256k1, decryptMessage of
\* encryptMessage(m, pub) with the private key of pub returns m, and with
\* the private key of another pair it throws a decryption error
C15_EncryptDecryptRoundTrip ==
    cryptoCall.kind = "decrypted" =>
        /\ MatchingKeys(cryptoCall.publicKey, cryptoCall.privateKey) =>
                cryptoCall.decrypted = Returned(cryptoCall.message)
        /\ UnrelatedKeys(cryptoCall.publicKey, cryptoCall.privateKey) =>
                /\ ~cryptoCall.decrypted.ok
                /\ cryptoCall.decrypted.error \in
                        {"RSA decryption failed", "ECIES decryption failed",
                         "ECIES decryption requires private key object"}

C15_Witness ==
    /\ cryptoCall.kind = "decrypted"
    /\ cryptoCall.encrypted.value.type = "ECIES"
    /\ MatchingKeys(cryptoCall.publicKey, cryptoCall.privateKey)
    /\ cryptoCall.decrypted = Returned("secret")

\* whether the verified signature is the unchanged signature of the verified
\* message under the private key of the verified public key, and whether it
\* is a signature of the verified family that is not that
SignatureMatches ==
    /\ sigCall.publicKey.pair = sigCall.privateKey.pair
    /\ sigCall.verifiedMessage = sigCall.message
    /\ ~sigCall.signature.value.changed

SameFamily ==
    /\ sigCall.verifiedKeyType = sigCall.keyType
    /\ sigCall.publicKey.family = sigCall.keyType

\* C16: for ED25519 and for ECDSA_SECP256K1, verifySignature of the signature
\* signMessage made is true under the public key of the signing key, and for
\* a signature of the right form that does not match (a byte changed, another
\* message, another key) it returns false and throws nothing
C16_SignVerify ==
    (sigCall.kind = "verified" /\ SameFamily) =>
        /\ sigCall.verified.ok
        /\ sigCall.verified.value = SignatureMatches

C16_Witness ==
    /\ sigCall.kind = "verified"
    /\ sigCall.keyType = "ECDSA_SECP256K1"
    /\ SameFamily
    /\ sigCall.publicKey.pair = sigCall.privateKey.pair
    /\ sigCall.verifiedMessage = sigCall.message
    /\ sigCall.signature.value.changed
    /\ sigCall.verified = Returned(FALSE)

\* the log of the polled box, and the sequence numbers of the chunks of the
\* multi-part message whose lowest chunk has sequence number id
PolledLog ==
    IF pollingCache.messageBoxId \in DOMAIN topics
    THEN topics[pollingCache.messageBoxId] ELSE <<>>

ChunksOf(id) ==
    {PolledLog[j].sequence_number :
        j \in {k \in DOMAIN PolledLog :
                \E i \in DOMAIN PolledLog :
                    /\ PolledLog[i].sequence_number = id
                    /\ PolledLog[i].chunk_info # NoChunk
                    /\ PolledLog[k].chunk_info.key = PolledLog[i].chunk_info.key}}

\* C17: once a poll has returned a reassembled multi-part message, the
\* cursor is at or above the sequence number of each of its chunks, whatever
\* lies between them, so that later polls, which fetch above the cursor,
\* fetch none of them
C17_CursorPastEveryChunk ==
    \A id \in delivered :
        \A seq \in ChunksOf(id) : seq <= pollingCache.lastSequenceNumber

C17_Witness ==
    /\ pollReturn.kind = "later"
    /\ \E m \in DOMAIN pollReturn.messages :
        LET id == pollReturn.messages[m].Seq
        IN  /\ Cardinality(ChunksOf(id)) = 2
            /\ \E between \in DOMAIN PolledLog :
                /\ PolledLog[between].chunk_info = NoChunk
                /\ \E low, high \in ChunksOf(id) :
                    /\ low < PolledLog[between].sequence_number
                    /\ PolledLog[between].sequence_number < high
                    /\ pollingCache.lastSequenceNumber >= high

\* the output ascends by sequence_number
OutputSorted ==
    \A i \in 1..(Len(output) - 1) :
        output[i].sequence_number <= output[i + 1].sequence_number

\* the input positions of the entries without chunk_info
PlainEntries == {i \in DOMAIN messages : messages[i].chunk_info = NoChunk}

InOutput(msg) == \E j \in DOMAIN output : output[j] = msg

\* C18 as stated: the list reassembleChunkedMessages returns is sorted in
\* ascending order of sequence_number, for inputs that mix plain entries
\* with multi-part messages and for inputs out of order, and every entry
\* without chunk_info is in it unchanged
C18_SortedPlainUnchanged ==
    reasmDone =>
        /\ OutputSorted
        /\ \A i \in PlainEntries : InOutput(messages[i])

\* C18 as the code has it: the list is sorted in ascending order of
\* sequence_number; an entry without chunk_info is in it unchanged when it
\* has a message, and is left out when its message is empty
C18_SortedPlainWithMessageUnchanged ==
    reasmDone =>
        /\ OutputSorted
        /\ \A i \in PlainEntries :
                InOutput(messages[i]) <=> Len(messages[i].message) > 0

\* an input in descending order with a plain entry after the chunks of a
\* complete message; the output has the plain entry first
C18_Witness ==
    /\ reasmDone
    /\ Len(messages) = MaxMsgs
    /\ messages[1].sequence_number > messages[2].sequence_number
    /\ GroupComplete("tx2")
    /\ messages[MaxMsgs].chunk_info = NoChunk
    /\ Len(output) = 2
    /\ output[1] = messages[MaxMsgs]
    /\ "_maxSequence" \in DOMAIN output[2]

\* C19: reassembleChunkedMessages throws nothing to its caller: for every
\* list, with chunks numbered outside 1..total, chunks that disagree on
\* total, and chunks with an invalid total or transaction id, it returns a
\* list, so that getNewMessages and getMessagesInRange do not fail on it
C19_NeverRaises ==
    reasmDone => reasmError = NoError

\* what the running or last setupMessageBox call had before it on the
\* ledger: a box id in the memo, a valid first entry in that box, and a
\* published key that the local private key fits
FoundBox == extractMessageBoxIdFromMemo(setup.memoBefore) # 0

ValidFirstEntry ==
    /\ FoundBox
    /\ checkMessageBoxStatus(extractMessageBoxIdFromMemo(setup.memoBefore),
                             TRUE).hasPublicKey

KeysMatch ==
    /\ ValidFirstEntry
    /\ verifyKeyPairMatchesTopic(extractMessageBoxIdFromMemo(setup.memoBefore),
                                 setup.privateKey, TRUE)

\* C20: setupMessageBox creates a box only when the memo holds no box id, or
\* the box it names has no valid first entry, or the key-match test fails
\* and the operator says yes, and it does create one when it succeeds in the
\* first two cases; when the keys match it creates nothing; when the
\* operator says no the call ends with no topic created, no entry published
\* and the memo unchanged
C20_BoxLifecycle ==
    setup.pc # "idle" =>
        /\ KeysMatch =>
                /\ setup.createTopic = "none"
                /\ setup.publishPublicKey = "none"
                /\ setup.updateAccountMemo = "none"
        /\ (setup.result = "success" /\ ~ValidFirstEntry) =>
                setup.createTopic = "ok"
        /\ setup.result = "exit" =>
                /\ setup.createTopic = "none"
                /\ setup.publishPublicKey = "none"
                /\ setup.updateAccountMemo = "none"
                /\ memo[Owner] = setup.memoBefore

\* C21: the entry with sequence number 1 of the box the running or last
\* setupMessageBox call created is the public key of the owner, whatever
\* other parties append to the ledger while the call runs
C21_FirstEntryIsOwnersKey ==
    (/\ setup.newMessageBoxId # 0
     /\ Len(topics[setup.newMessageBoxId]) > 0) =>
        topics[setup.newMessageBoxId][1] =
            Msg(1,
                B64Encode(JSONstringify(
                    PublicKeyDoc(PublicKeyOf(setup.privateKey)))),
                NoChunk)

\* the key published in the first entry of a box, "none" when the box has
\* no first entry or the entry publishes no key
PublishedKey(messageBoxId) ==
    LET first == getFirstTopicMessage(messageBoxId)
        parsed == JSONparse(B64Decode(first.message))
    IN  IF first # NoMessage /\ parsed.type = "PUBLIC_KEY"
        THEN parsed.publicKey ELSE "none"

\* the probe, encrypted with the published key, decrypts with the private
\* key to the probe
ProbeDecrypts(messageBoxId, privateKey) ==
    /\ PublishedKey(messageBoxId) # "none"
    /\ decryptMessage(encryptMessage("key_verification_test",
                                     PublishedKey(messageBoxId)),
                      privateKey)
       = [ok |-> TRUE, text |-> "key_verification_test"]

PastEnd(page) ==
    /\ rangeCall.endSequence # 0
    /\ \E i \in DOMAIN page : page[i].sequence_number > rangeCall.endSequence

\* a page after which the loop stops: empty, shorter than the page size, or
\* with an entry above the end
LastPage(page) == Len(page) = 0 \/ Len(page) < PageLimit \/ PastEnd(page)

\* C23: every request of getMessagesInRange has a strictly larger lower
\* bound than the one before, the loop goes on after a page exactly when the
\* page is full and has no entry above the end, and the call terminates
C23_RangeLoopAdvances ==
    /\ \A i \in DOMAIN rangeCall.requests :
            i > 1 => rangeCall.requests[i - 1] < rangeCall.requests[i]
    /\ \A i \in DOMAIN rangeCall.pages :
            i < Len(rangeCall.pages) => ~LastPage(rangeCall.pages[i])
    /\ (rangeCall.pc = "while" /\ Len(rangeCall.pages) > 0) =>
            ~LastPage(rangeCall.pages[Len(rangeCall.pages)])
    /\ (rangeCall.pc = "done" /\ ~rangeCall.thrown) =>
            /\ Len(rangeCall.pages) > 0
            /\ LastPage(rangeCall.pages[Len(rangeCall.pages)])

C23_RangeLoopTerminates ==
    /\ []C23_RangeLoopAdvances
    /\ (rangeCall.pc = "while") ~> (rangeCall.pc = "done")

\* the call has ended after three requests and more, without an error
C23_Witness ==
    /\ rangeCall.pc = "done"
    /\ ~rangeCall.thrown
    /\ Len(rangeCall.requests) >= 3

\* C24: in the listen loop at most one pollMessages call is in flight: a
\* poll is in flight exactly while the loop awaits it, and the polling
\* cache it started from is still the polling cache, no other poll having
\* written to it
C24_OnePollInFlight ==
    /\ listener.inFlight <= 1
    /\ listener.inFlight = 1 <=> listener.pc = "pollMessages"
    /\ listener.pc = "pollMessages" =>
            listener.cacheAtStart = <<pollingCache>>

\* the loop awaits a poll that is not its first, new entries being in the
\* box
C24_Witness ==
    /\ listener.pc = "pollMessages"
    /\ ~pollingCache.firstCall
    /\ Len(topics[pollingCache.messageBoxId])
            > pollingCache.lastSequenceNumber

\* the last pollMessages call failed: it threw for the memo lookup, its
\* fetch of new entries failed, or its first read of the latest sequence
\* number failed (the box is not empty and the cursor is not at its end)
PollFailed ==
    \/ pollReturn.kind \in {"throw", "failed"}
    \/ /\ pollReturn.kind = "first"
       /\ sessionStart # 0
       /\ pollingCache.lastSequenceNumber # sessionStart

\* C25: a poll that fails leaves firstCall, lastSequenceNumber and the
\* cached box id of the polling cache as they were before the call
C25_FailedPollKeepsState ==
    [][(pollReturn' # pollReturn /\ PollFailed') =>
            /\ pollingCache'.firstCall = pollingCache.firstCall
            /\ pollingCache'.lastSequenceNumber
                    = pollingCache.lastSequenceNumber
            /\ pollingCache'.messageBoxId = pollingCache.messageBoxId]_vars

\* C26: once a poll has resolved the box id and the private key (firstCall
\* is false), no step changes messageBoxId or privateKey of the polling
\* cache, whatever account id later polls pass and whatever happens to the
\* memos and the key files
C26_CachedBoxAndKeyFixed ==
    [][~pollingCache.firstCall =>
            /\ ~pollingCache'.firstCall
            /\ pollingCache'.messageBoxId = pollingCache.messageBoxId
            /\ pollingCache'.privateKey = pollingCache.privateKey]_vars

\* a later poll has run with a cache that names a box the passed accounts'
\* memos no longer all name, and a key that is no longer the stored one
C26_Witness ==
    /\ pollReturn.kind \in {"later", "failed"}
    /\ \E a \in Accounts :
            extractMessageBoxIdFromMemo(memo[a]) # pollingCache.messageBoxId
    /\ PrivateKeyIn(loadOrGenerateRSAKeyPair(dataDir))
            # pollingCache.privateKey

\* decodeCBOR is tried on the payload and yields an object with a truthy
\* type
CborAccepted(payload) ==
    /\ Len(payload) > 0
    /\ payload[1] \notin {123, 91}
    /\ decodeCBOR(payload).ok
    /\ decodeCBOR(payload).value.t \in {"object", "array", "buffer"}
    /\ Truthy(Get(decodeCBOR(payload).value, "type"))

Decrypting ==
    cryptoCall.kind \in {"decrypted", "decryptedUntagged", "decryptedBare"}

PassedEnvelope ==
    IF cryptoCall.kind = "decryptedUntagged"
    THEN Untagged(cryptoCall.encrypted.value)
    ELSE IF cryptoCall.kind = "decryptedBare"
    THEN Bare(cryptoCall.encrypted.value)
    ELSE cryptoCall.encrypted.value

\* an envelope is decrypted only with a key of its own scheme
SameScheme ==
    (Decrypting /\ cryptoCall.decrypted.ok) =>
        /\ cryptoCall.publicKey.key.pair \in RsaPairs
                => cryptoCall.privateKey.key.pair \in RsaPairs
        /\ cryptoCall.publicKey.key.pair \in EcPairs
                => cryptoCall.privateKey.key.pair \in EcPairs

ClaimedWidth(x) ==
    IF x.half = 0 /\ x.sign = 1 /\ x.hi = 0 /\ x.lo < 24 THEN 1
    ELSE IF x.half = 0 /\ x.sign = 1 /\ x.hi = 0 /\ x.lo < 256 THEN 2
    ELSE IF x.half = 0 /\ x.sign = 1 /\ x.hi = 0 THEN 3
    ELSE IF x.half = 0 /\ x.sign = 1 /\ x.hi < 65536 THEN 5
    ELSE IF x.half = 0 /\ x.sign = -1 /\ x.hi = 0 /\ x.lo <= 24 THEN 1
    ELSE 9

\* C29: encodeCBOR encodes every number without failing, in the number of
\* bytes its value selects: 1, 2, 3 or 5 for a non-negative integer below
\* 24, 256, 65536 or 2^32, 1 for an integer from -1 to -24, and 9 for every
\* other number
C29_NumberWidths ==
    codecCall.fn = "encodeCBOR" =>
        /\ codecCall.result.ok
        /\ Len(codecCall.result.value) = ClaimedWidth(codecCall.input)

\* C30: decodeCBOR fails, and returns no value, on every input that ends
\* before the value it begins is complete (a length or magnitude cut short,
\* a string shorter than its length, an array or map with items missing),
\* and on an unsupported major type, simple value or additional info
C30_TruncatedInputFails ==
    codecCall.fn = "decodeCBOR" =>
        /\ Len(codecCall.input.bytes) < Len(codecCall.input.from) =>
                ~codecCall.result.ok
        /\ codecCall.input.bytes \in Unsupported => ~codecCall.result.ok

====
